---------------------------- MODULE Spec2Model ----------------------------
(* Verification model of the ade-bench harness core:                       *)
(*   - duration-hint scheduling (hint loading, LPT ordering of work items) *)
(*   - the session driver's completion-detection state machine             *)
(*   - the fuzzy result comparator (fuzzy_compare.py) and its script       *)
(*   - agent setup in perform_task, plugin-set resolution, task scanning,  *)
(*     the worker pool and the setup orchestrator                          *)
EXTENDS Integers, Sequences, FiniteSets, TLC

(***************************************************************************)
(* Bounds                                                                  *)
(***************************************************************************)
MaxTasks == 3
MaxRecords == 3
MaxTimeout == 3

(***************************************************************************)
(* Universe of inputs                                                      *)
(***************************************************************************)
\* names of task directories (task_path.name)
TaskNames == {"fast", "slow", "task"}
\* variant keys; "base" is the sentinel
TaskKeys == {"base", "hard"}
\* observed runtimes in milliseconds
MsValues == {100, 500}
\* task identifiers that may occur in a history file
HintIds == {"fast", "task", "task.hard"}

VARIABLES
    \* ---- hint loading ----
    source,      \* kind of hint source: "none", "nofile", "corrupt", "file"
    records,     \* the records of the results file, in file order
    loadIdx,     \* index of the next record the load loop reads
    hints,       \* the mapping under construction / returned
    loadPc,      \* "start", "loop", "returned", "raised"
    \* ---- ordering ----
    tasks,       \* work items (task_path.name, task_key), in input order
    sortHints,   \* hint mapping handed to the sort
    sorted,      \* result of the sort
    orderPc,     \* "ready", "sorted"
    \* ---- session driver ----
    command,     \* the agent's TerminalCommand: [min, max] timeouts
    state,       \* "IDLE", "RUNNING", "COMPLETE_BY_EXIT",
                 \* "COMPLETE_BY_PREDICATE", "TIMED_OUT"; "FAILED" stands
                 \* for a call ended by an exception other than the timeout
    minTimeout,  \* min_timeout_sec of the command sent to the session
    maxTimeout,  \* max_timeout_sec of the command sent to the session
    hasCheck,    \* a completion_check was handed to send_command
    elapsed,     \* polling ticks since the command was sent
    exited,      \* the process in the session has exited
    exitAt,      \* value of elapsed when the process exited, -1 before
    predOut,     \* what is_complete() yields when invoked now:
                 \* "false", "true" or "raise"
    obsExit,     \* some poll has observed process exit
    obsPred,     \* some poll has observed is_complete() = true
    obsRaise,    \* some poll has seen is_complete() raise
    polls,       \* number of is_complete() invocations
    caller,      \* perform_task: "blocked", "AgentResult", "TimeoutError",
                 \* or "PredicateError" for an exception of the predicate
    \* ---- the agent's completion predicate ----
    tailLines,   \* the last lines of the agent output log, oldest first
    procExited,  \* the agent process has exited
    checkResult, \* what _is_agent_output_complete returned for this tail:
                 \* "none" (not asked), "false", "true" or "raise"
    \* ---- result comparator ----
    gold,        \* gold_df: the DataFrame read from the gold CSV
    comp,        \* comp_df: the DataFrame fetched from the result table
    verdict,     \* outcome of compare(gold_df, comp_df)
    cmpPc,       \* "ready", "compared"
    \* ---- the comparator script (main) ----
    goldFile,    \* the gold CSV: "ok" or "unreadable"
    resultTable, \* the result table in the database: "ok" or "unreadable"
    matchTable,  \* fuzzy_match_result: [state, rows, error] with state
                 \* "absent", "stale" (left by an earlier run) or "written"
    mainPc,      \* "start", "gold", "result", "compared", "done", "crashed"
    \* ---- perform_task: environment setup, agent run, result ----
    useMcp,      \* self._use_mcp
    toSend,      \* number of commands _run_agent_commands returns
    timedOut,    \* the command that timed out: "none", "env", "mcp", "agent"
    ptPc,        \* "env", "mcp", "agent", "log", "returned", "raised"
    sent,        \* agent commands sent to the session so far
    logRead,     \* the agent output log has been read
    ptResult,    \* the AgentResult returned, or NoResult
    \* ---- plugin set resolution ----
    config,      \* self._config: [loaded, sets]
    configFile,  \* the YAML file: [exists, sets]
    plugin_set_names, \* [given, list]; given = FALSE for None
    agent_name,  \* the agent being used
    resolved,    \* [out, sets]: out is "pending", "ValueError",
                 \* "FileNotFoundError" or "returned" with the list in sets
    \* ---- task scanner ----
    entries,     \* the entries of the tasks directory, in iterdir() order
    wanted,      \* the filters of scan(): task_ids, status, db_type,
                 \* project_type ("any" and {} stand for None)
    scanIdx,     \* index of the next entry of the sorted listing
    found,       \* the tasks list under construction / returned
    scanPc,      \* "start", "loop", "returned"
    \* ---- worker pool ----
    queue,       \* work items not yet started, head first
    poolHints,   \* hint mapping the queue was ordered with
    workers,     \* per worker: the item it runs, or Free
    started,     \* work items in the order they were started
    \* ---- setup orchestrator ----
    variant,     \* project_type and db_type of the variant
    orch,        \* plugin_set skills / file_diff_handler present
    fails,       \* the set of setup functions that report failure
    orchPc,      \* next step of setup_task, or "returned"
    ran,         \* the steps run so far, in order
    orchResult   \* "none", "True" or "False"

loadVars == <<source, records, loadIdx, hints, loadPc>>
orderVars == <<tasks, sortHints, sorted, orderPc>>
driverVars == <<command, state, minTimeout, maxTimeout, hasCheck, elapsed,
                exited, exitAt, predOut, obsExit, obsPred, obsRaise, polls,
                caller>>
predVars == <<tailLines, procExited, checkResult>>
cmpVars == <<gold, comp, verdict, cmpPc>>
scriptVars == <<goldFile, resultTable, matchTable, mainPc>>
ptVars == <<useMcp, toSend, timedOut, ptPc, sent, logRead, ptResult>>
pluginVars == <<config, configFile, plugin_set_names, agent_name, resolved>>
scanVars == <<entries, wanted, scanIdx, found, scanPc>>
poolVars == <<queue, poolHints, workers, started>>
orchVars == <<variant, orch, fails, orchPc, ran, orchResult>>
harnessVars == <<scriptVars, ptVars, pluginVars, scanVars, poolVars, orchVars>>
vars == <<loadVars, orderVars, driverVars, predVars, cmpVars, harnessVars>>

(***************************************************************************)
(* Generic helpers                                                         *)
(***************************************************************************)
SeqsUpTo(S, n) == UNION {[1..k -> S] : k \in 0..n}

Reverse(s) == [i \in 1..Len(s) |-> s[Len(s) + 1 - i]]

Max2(a, b) == IF a >= b THEN a ELSE b

(***************************************************************************)
(* Ordering of work items                                                  *)
(***************************************************************************)
WorkItems == [name : TaskNames, key : TaskKeys]

\* variant of task_id_from that forgets the variant key
task_id_from_NameOnly(name, key) == name

\* task_id_from(task_path, task_key)
task_id_from(name, key) ==
    IF key = "base" THEN name ELSE name \o "." \o key

TaskId(t) == task_id_from(t.name, t.key)

\* float('inf') and integer hints as one ordered domain
Infinity == [inf |-> TRUE, ms |-> 0]
Finite(n) == [inf |-> FALSE, ms |-> n]

\* a < b on sort keys
KeyLess(a, b) == /\ ~a.inf
                 /\ (b.inf \/ a.ms < b.ms)

\* variant of SortKey that assumes an unknown task is fast (default 0)
SortKey_UnknownZero(t, H) ==
    IF TaskId(t) \in DOMAIN H THEN Finite(H[TaskId(t)]) ELSE Finite(0)

\* hints.get(task_id_from(t[0], t[1]), float('inf'))
SortKey(t, H) ==
    IF TaskId(t) \in DOMAIN H THEN Finite(H[TaskId(t)]) ELSE Infinity

\* position at which a stable ascending sort puts x into the sorted s:
\* after every element that is not greater than x
RECURSIVE InsertAsc(_, _, _)
InsertAsc(x, s, H) ==
    IF s = <<>> THEN <<x>>
    ELSE IF KeyLess(SortKey(x, H), SortKey(s[1], H))
         THEN <<x>> \o s
         ELSE <<s[1]>> \o InsertAsc(x, Tail(s), H)

\* stable ascending sort (list.sort / sorted without reverse)
RECURSIVE StableAsc(_, _)
StableAsc(s, H) ==
    IF s = <<>> THEN <<>>
    ELSE InsertAsc(s[Len(s)], StableAsc(SubSeq(s, 1, Len(s) - 1), H), H)

\* variant of SortTasks that sorts ascending and reverses the result
SortTasks_ReversedAfter(L, H) == Reverse(StableAsc(L, H))

\* sorted(tasks, key=..., reverse=True): reverse, stable ascending sort,
\* reverse again, which keeps equal keys in input order
SortTasks(L, H) == Reverse(StableAsc(Reverse(L), H))

HintMaps == UNION {[D -> MsValues] : D \in SUBSET HintIds}

(***************************************************************************)
(* Initial values of the three components                                  *)
(***************************************************************************)
LoadIdle == /\ source = "none"
            /\ records = <<>>
            /\ loadIdx = 1
            /\ hints = <<>>
            /\ loadPc = "start"

OrderIdle == /\ tasks = <<>>
             /\ sortHints = <<>>
             /\ sorted = <<>>
             /\ orderPc = "ready"

DriverIdle == /\ command = [min |-> 0, max |-> 1]
              /\ state = "IDLE"
              /\ minTimeout = 0
              /\ maxTimeout = 0
              /\ hasCheck = FALSE
              /\ elapsed = 0
              /\ exited = FALSE
              /\ exitAt = -1
              /\ predOut = "false"
              /\ obsExit = FALSE
              /\ obsPred = FALSE
              /\ obsRaise = FALSE
              /\ polls = 0
              /\ caller = "blocked"

\* a DataFrame: column labels in column order, the dtype and the values of
\* each column (numbers in units of 1e-6, strings as their rank in
\* lexicographic order), and the number of rows
EmptyFrame == [names |-> <<"a">>, dtypes |-> <<"object">>,
               vals |-> << <<>> >>, nrows |-> 0]

NoVerdict == [res |-> "none", msg |-> "none", named |-> {},
              avail |-> <<>>, n1 |-> 0, n2 |-> 0]

CmpIdle == /\ gold = EmptyFrame
           /\ comp = EmptyFrame
           /\ verdict = NoVerdict
           /\ cmpPc = "ready"

PredIdle == /\ tailLines = <<>>
            /\ procExited = FALSE
            /\ checkResult = "none"

NoTable == [state |-> "absent", rows |-> 0, error |-> "none"]

ScriptIdle == /\ goldFile = "ok"
              /\ resultTable = "ok"
              /\ matchTable = NoTable
              /\ mainPc = "start"

NoResult == [returned |-> FALSE, failure_mode |-> "NONE", input_tokens |-> 0,
             output_tokens |-> 0, cache_tokens |-> 0, num_turns |-> 0,
             runtime_ms |-> 0, cost_usd |-> 0]

PtIdle == /\ useMcp = FALSE
          /\ toSend = 0
          /\ timedOut = "none"
          /\ ptPc = "env"
          /\ sent = 0
          /\ logRead = FALSE
          /\ ptResult = NoResult

Pending == [out |-> "pending", sets |-> <<>>]

PluginIdle == /\ config = [loaded |-> FALSE, sets |-> <<>>]
              /\ configFile = [exists |-> FALSE, sets |-> <<>>]
              /\ plugin_set_names = [given |-> FALSE, list |-> <<>>]
              /\ agent_name = "claude"
              /\ resolved = Pending

ScanIdle == /\ entries = <<>>
            /\ wanted = [task_ids |-> {}, status |-> "any",
                          db_type |-> "any", project_type |-> "any"]
            /\ scanIdx = 1
            /\ found = <<>>
            /\ scanPc = "start"

PoolIdle == /\ queue = <<>>
            /\ poolHints = <<>>
            /\ workers = <<>>
            /\ started = <<>>

OrchIdle == /\ variant = [project_type |-> "other", db_type |-> "other"]
            /\ orch = [skills |-> FALSE, file_diff_handler |-> FALSE]
            /\ fails = {}
            /\ orchPc = "dbt"
            /\ ran = <<>>
            /\ orchResult = "none"

HarnessIdle == /\ ScriptIdle /\ PtIdle /\ PluginIdle
               /\ ScanIdle /\ PoolIdle /\ OrchIdle

(***************************************************************************)
(* Ordering: the work list is sorted once, before dispatch                 *)
(***************************************************************************)
OrderInit == /\ tasks \in SeqsUpTo(WorkItems, MaxTasks)
             /\ sortHints \in HintMaps
             /\ sorted = <<>>
             /\ orderPc = "ready"
             /\ LoadIdle
             /\ DriverIdle
             /\ PredIdle
             /\ CmpIdle
             /\ HarnessIdle

\* sorted_tasks = sorted(tasks, key=lambda t: hints.get(...), reverse=True)
SortByHints == /\ orderPc = "ready"
               /\ sorted' = SortTasks(tasks, sortHints)
               /\ orderPc' = "sorted"
               /\ UNCHANGED <<tasks, sortHints, loadVars, driverVars, predVars, cmpVars, harnessVars>>

OrderNext == SortByHints

OrderSpec == OrderInit /\ [][OrderNext]_vars

(***************************************************************************)
(* Claims about the ordering                                               *)
(***************************************************************************)
\* the join key as the claims state it
ClaimedId(t) == IF t.key = "base" THEN t.name ELSE t.name \o "." \o t.key
ClaimedHinted(t, H) == ClaimedId(t) \in DOMAIN H

Count(s, x) == Cardinality({i \in DOMAIN s : s[i] = x})

IsPermutation(s, t) == /\ Len(s) = Len(t)
                       /\ \A x \in WorkItems : Count(s, x) = Count(t, x)

\* the items of s whose claimed join key has the same hint status/value as k's
SameKeyAs(k, H, s) ==
    SelectSeq(s, LAMBDA t :
        IF ClaimedHinted(k, H)
        THEN ClaimedHinted(t, H) /\ H[ClaimedId(t)] = H[ClaimedId(k)]
        ELSE ~ClaimedHinted(t, H))

\* C1: order(L, H) is a permutation of L, items with equal sort key keep
\* their relative input order, and with H empty the output equals the input.
C1_PermutationStable ==
    orderPc = "sorted" =>
        /\ IsPermutation(sorted, tasks)
        /\ \A k \in WorkItems :
              SameKeyAs(k, sortHints, sorted) = SameKeyAs(k, sortHints, tasks)
        /\ (DOMAIN sortHints = {} => sorted = tasks)

\* C1 witness: two distinct items with equal hint value were given in an
\* order the sort had to keep while moving a third item past them.
C1_Witness ==
    /\ orderPc = "sorted"
    /\ sorted # tasks
    /\ \E i, j \in DOMAIN tasks :
          /\ i < j
          /\ tasks[i] # tasks[j]
          /\ ClaimedHinted(tasks[i], sortHints)
          /\ ClaimedHinted(tasks[j], sortHints)
          /\ sortHints[ClaimedId(tasks[i])] = sortHints[ClaimedId(tasks[j])]

\* C2: every item without a hint precedes every item with a hint, and the
\* hinted items appear in non-increasing hint value.
C2_UnknownFirstThenDescending ==
    orderPc = "sorted" =>
        \A i, j \in DOMAIN sorted :
            i < j =>
                /\ ~(ClaimedHinted(sorted[i], sortHints)
                        /\ ~ClaimedHinted(sorted[j], sortHints))
                /\ (ClaimedHinted(sorted[i], sortHints)
                        /\ ClaimedHinted(sorted[j], sortHints)
                    => sortHints[ClaimedId(sorted[i])]
                          >= sortHints[ClaimedId(sorted[j])])

\* C2 witness: hints {fast:100, task:500}, items [fast, slow, task] with slow
\* unknown give [slow, task, fast].
C2_Witness ==
    /\ orderPc = "sorted"
    /\ sortHints = [id \in {"fast", "task"} |->
                        IF id = "fast" THEN 100 ELSE 500]
    /\ tasks = << [name |-> "fast", key |-> "base"],
                  [name |-> "slow", key |-> "base"],
                  [name |-> "task", key |-> "base"] >>
    /\ sorted = << [name |-> "slow", key |-> "base"],
                   [name |-> "task", key |-> "base"],
                   [name |-> "fast", key |-> "base"] >>

\* C6: the join key into the hints is task_path.name for key "base" and
\* "<name>.<key>" otherwise: the output is ordered by the hints found under
\* those keys, so a hint stored under "task.hard" moves (task, "hard") behind
\* the unhinted (task, "base"), never the other way round.
C6_JoinKey ==
    orderPc = "sorted" =>
        /\ \A i, j \in DOMAIN sorted :
              (i < j /\ ClaimedHinted(sorted[i], sortHints)) =>
                  /\ ClaimedHinted(sorted[j], sortHints)
                  /\ sortHints[ClaimedId(sorted[i])]
                        >= sortHints[ClaimedId(sorted[j])]
        /\ ("task.hard" \in DOMAIN sortHints /\ "task" \notin DOMAIN sortHints)
            => \A i, j \in DOMAIN sorted :
                  (/\ sorted[i] = [name |-> "task", key |-> "hard"]
                   /\ sorted[j] = [name |-> "task", key |-> "base"])
                  => j < i

\* C6 witness: (task, "hard") was given first, only "task.hard" has a hint,
\* and the sort moved it behind (task, "base").
C6_Witness ==
    /\ orderPc = "sorted"
    /\ DOMAIN sortHints = {"task.hard"}
    /\ tasks = << [name |-> "task", key |-> "hard"],
                  [name |-> "task", key |-> "base"] >>
    /\ sorted = << [name |-> "task", key |-> "base"],
                   [name |-> "task", key |-> "hard"] >>

(***************************************************************************)
(* Hint loading: one pass over the records of a previous run's results     *)
(***************************************************************************)
Sources == {"none", "nofile", "corrupt", "file"}

\* a record of the results file; ok = FALSE is a record that cannot be
\* parsed into (task_id, runtime_ms)
WellFormedRecords == [ok : {TRUE}, task_id : HintIds, runtime_ms : MsValues]
MalformedRecords == [ok : {FALSE}, task_id : {"fast", "task.hard"},
                     runtime_ms : {500}]
Records == WellFormedRecords \cup MalformedRecords

EmptyHints == <<>>

\* variant of MergeHint in which the last record of a task wins
MergeHint_LastWins(H, r) ==
    [id \in DOMAIN H \cup {r.task_id} |->
        IF id = r.task_id THEN r.runtime_ms ELSE H[id]]

\* hint of r's task becomes the maximum of the old hint and r's runtime
MergeHint(H, r) ==
    [id \in DOMAIN H \cup {r.task_id} |->
        IF id = r.task_id
        THEN (IF id \in DOMAIN H THEN Max2(H[id], r.runtime_ms)
              ELSE r.runtime_ms)
        ELSE H[id]]

LoadInit == /\ source \in Sources
            /\ records \in (IF source = "file"
                            THEN SeqsUpTo(Records, MaxRecords)
                            ELSE {<<>>})
            /\ loadIdx = 1
            /\ hints = EmptyHints
            /\ loadPc = "start"
            /\ OrderIdle
            /\ DriverIdle
            /\ PredIdle
            /\ CmpIdle
            /\ HarnessIdle

\* variant of LoadAbsent that fails on an absent source
LoadAbsent_Raises == /\ loadPc = "start"
                     /\ source \in {"none", "nofile"}
                     /\ loadPc' = "raised"
                     /\ UNCHANGED <<source, records, loadIdx, hints,
                                    orderVars, driverVars, predVars, cmpVars, harnessVars>>

\* no source configured, or no results file under the configured path
LoadAbsent == /\ loadPc = "start"
              /\ source \in {"none", "nofile"}
              /\ hints' = EmptyHints
              /\ loadPc' = "returned"
              /\ UNCHANGED <<source, records, loadIdx, orderVars, driverVars, predVars, cmpVars, harnessVars>>

\* the file exists but cannot be read as a results file
LoadCorrupt == /\ loadPc = "start"
               /\ source = "corrupt"
               /\ hints' = EmptyHints
               /\ loadPc' = "returned"
               /\ UNCHANGED <<source, records, loadIdx, orderVars, driverVars, predVars, cmpVars, harnessVars>>

\* the file is read; the loop over its records starts
LoadOpen == /\ loadPc = "start"
            /\ source = "file"
            /\ hints' = EmptyHints
            /\ loadIdx' = 1
            /\ loadPc' = "loop"
            /\ UNCHANGED <<source, records, orderVars, driverVars, predVars, cmpVars, harnessVars>>

\* variant of LoadRecord in which a malformed record aborts the load
LoadRecord_Aborts ==
    /\ loadPc = "loop"
    /\ loadIdx <= Len(records)
    /\ IF records[loadIdx].ok
       THEN /\ hints' = MergeHint(hints, records[loadIdx])
            /\ loadIdx' = loadIdx + 1
            /\ loadPc' = "loop"
       ELSE /\ hints' = EmptyHints
            /\ loadIdx' = loadIdx
            /\ loadPc' = "returned"
    /\ UNCHANGED <<source, records, orderVars, driverVars, predVars, cmpVars, harnessVars>>

\* one iteration: a well-formed record is merged, a malformed one skipped
LoadRecord ==
    /\ loadPc = "loop"
    /\ loadIdx <= Len(records)
    /\ hints' = IF records[loadIdx].ok
                THEN MergeHint(hints, records[loadIdx])
                ELSE hints
    /\ loadIdx' = loadIdx + 1
    /\ UNCHANGED <<source, records, loadPc, orderVars, driverVars, predVars, cmpVars, harnessVars>>

\* all records read: the mapping is returned
LoadReturn == /\ loadPc = "loop"
              /\ loadIdx > Len(records)
              /\ loadPc' = "returned"
              /\ UNCHANGED <<source, records, loadIdx, hints,
                             orderVars, driverVars, predVars, cmpVars, harnessVars>>

LoadNext == \/ LoadAbsent
            \/ LoadCorrupt
            \/ LoadOpen
            \/ LoadRecord
            \/ LoadReturn

LoadSpec == LoadInit /\ [][LoadNext]_vars

(***************************************************************************)
(* Claims about hint loading                                               *)
(***************************************************************************)
\* runtimes recorded for task id in well-formed records
RuntimesOf(id) ==
    {records[i].runtime_ms : i \in {j \in DOMAIN records :
                                      records[j].ok /\ records[j].task_id = id}}

SetMax(S) == CHOOSE m \in S : \A n \in S : n <= m

AllWellFormed == \A i \in DOMAIN records : records[i].ok

\* C3: for a file of (task_id, runtime_ms) records the returned mapping has
\* exactly the task ids present as keys and, for each, the maximum runtime
\* among its records, whatever the order of the records.
C3_MaxOfDuplicates ==
    (loadPc = "returned" /\ source = "file" /\ AllWellFormed) =>
        /\ DOMAIN hints = {id \in HintIds : RuntimesOf(id) # {}}
        /\ \A id \in DOMAIN hints : hints[id] = SetMax(RuntimesOf(id))

\* C3 witness: a task with three records whose largest runtime is neither
\* the first nor the last record.
C3_Witness ==
    /\ loadPc = "returned"
    /\ source = "file"
    /\ AllWellFormed
    /\ Len(records) = 3
    /\ \A i \in DOMAIN records : records[i].task_id = "task"
    /\ records[1].runtime_ms = 100
    /\ records[2].runtime_ms = 500
    /\ records[3].runtime_ms = 100
    /\ hints = [id \in {"task"} |-> 500]

\* C4: with no source, or no results file under the path, the load returns
\* the empty mapping and does not raise.
C4_AbsentSourceEmpty ==
    source \in {"none", "nofile"} =>
        /\ loadPc # "raised"
        /\ (loadPc = "returned" => hints = EmptyHints)

\* C4 witness: the load returned for a path without results file.
C4_Witness == /\ source = "nofile"
              /\ loadPc = "returned"
              /\ hints = EmptyHints

HasMalformed == \E i \in DOMAIN records : ~records[i].ok
HasWellFormed == \E i \in DOMAIN records : records[i].ok

\* C5: in a file mixing well-formed and malformed records every malformed
\* record is skipped: the load never aborts, goes on to the end of the file
\* and returns the hints of every well-formed record.
C5_MalformedSkipped ==
    (source = "file" /\ HasMalformed /\ HasWellFormed) =>
        /\ loadPc # "raised"
        /\ (loadPc = "returned" =>
              /\ loadIdx = Len(records) + 1
              /\ DOMAIN hints = {id \in HintIds : RuntimesOf(id) # {}}
              /\ \A id \in DOMAIN hints : hints[id] = SetMax(RuntimesOf(id)))

\* C5 witness: a malformed record precedes a well-formed one whose hint is
\* in the returned mapping.
C5_Witness ==
    /\ source = "file"
    /\ loadPc = "returned"
    /\ Len(records) >= 2
    /\ ~records[1].ok
    /\ records[2].ok
    /\ records[2].task_id \in DOMAIN hints

(***************************************************************************)
(* Session driver: one agent command, sent by perform_task and waited for  *)
(* inside the blocking send_command call                                   *)
(***************************************************************************)
Terminal == {"COMPLETE_BY_EXIT", "COMPLETE_BY_PREDICATE", "TIMED_OUT"}

\* TerminalCommand(min_timeout_sec, max_timeout_sec) of the agent
Commands == {c \in [min : 0..MaxTimeout, max : 1..MaxTimeout] : c.min <= c.max}

\* variant of ModifiedCommand that loses the command's min_timeout_sec
ModifiedCommand_NoMin(c) == [min |-> 0, max |-> c.max]

\* modified_command = TerminalCommand(... min_timeout_sec=command.min_timeout_sec,
\*                                    max_timeout_sec=command.max_timeout_sec ...)
ModifiedCommand(c) == [min |-> c.min, max |-> c.max]

\* variant of CompletionCheckGiven: send_command without completion_check
CompletionCheckGiven_None == FALSE

\* session.send_command(modified_command, completion_check=completion_check)
CompletionCheckGiven == TRUE

\* variant of PerformTaskOutcome that swallows the driver's timeout
PerformTaskOutcome_Swallow(s) == "AgentResult"

\* what perform_task hands to its caller once send_command is over: the
\* TimeoutError of the agent command is not caught, otherwise the log is
\* read and an AgentResult returned
PerformTaskOutcome(s) ==
    IF s = "TIMED_OUT" THEN "TimeoutError" ELSE "AgentResult"

\* variant of PollOutcome whose deadline passes one tick late
PollOutcome_LateDeadline(ex, pr, chk, el, mn, mx) ==
    IF el < mn THEN "floor"
    ELSE IF ex THEN "exit"
    ELSE IF chk /\ pr = "true" THEN "predicate"
    ELSE IF el > mx THEN "timeout"
    ELSE "wait"

\* variant of PollOutcome that consults the predicate before process exit
PollOutcome_PredicateFirst(ex, pr, chk, el, mn, mx) ==
    IF el < mn THEN "floor"
    ELSE IF chk /\ pr = "true" THEN "predicate"
    ELSE IF ex THEN "exit"
    ELSE IF el >= mx THEN "timeout"
    ELSE "wait"

\* variant of PollOutcome in which an exception of the predicate escapes
PollOutcome_RaiseEscapes(ex, pr, chk, el, mn, mx) ==
    IF el < mn THEN "floor"
    ELSE IF ex THEN "exit"
    ELSE IF chk /\ pr = "raise" THEN "error"
    ELSE IF chk /\ pr = "true" THEN "predicate"
    ELSE IF el >= mx THEN "timeout"
    ELSE "wait"

\* decision of one polling tick: nothing is reported before min_timeout;
\* then process exit wins, then a true predicate (a raising predicate counts
\* as not complete), then the max_timeout deadline
PollOutcome(ex, pr, chk, el, mn, mx) ==
    IF el < mn THEN "floor"
    ELSE IF ex THEN "exit"
    ELSE IF chk /\ pr = "true" THEN "predicate"
    ELSE IF el >= mx THEN "timeout"
    ELSE "wait"

DriverInit == /\ command \in Commands
              /\ state = "IDLE"
              /\ minTimeout = 0
              /\ maxTimeout = 0
              /\ hasCheck = FALSE
              /\ elapsed = 0
              /\ exited = FALSE
              /\ exitAt = -1
              /\ predOut = "false"
              /\ obsExit = FALSE
              /\ obsPred = FALSE
              /\ obsRaise = FALSE
              /\ polls = 0
              /\ caller = "blocked"
              /\ LoadIdle
              /\ OrderIdle
              /\ PredIdle
              /\ CmpIdle
              /\ HarnessIdle

\* perform_task sends the agent command to the session
Dispatch ==
    /\ state = "IDLE"
    /\ state' = "RUNNING"
    /\ minTimeout' = ModifiedCommand(command).min
    /\ maxTimeout' = ModifiedCommand(command).max
    /\ hasCheck' = CompletionCheckGiven
    /\ elapsed' = 0
    /\ UNCHANGED <<command, exited, exitAt, predOut, obsExit, obsPred,
                   obsRaise, polls, caller, loadVars, orderVars, predVars, cmpVars, harnessVars>>

\* the process running in the session exits (the shell prompt returns)
ProcessExits ==
    /\ state = "RUNNING"
    /\ ~exited
    /\ exited' = TRUE
    /\ exitAt' = elapsed
    /\ UNCHANGED <<command, state, minTimeout, maxTimeout, hasCheck, elapsed,
                   predOut, obsExit, obsPred, obsRaise, polls, caller,
                   loadVars, orderVars, predVars, cmpVars, harnessVars>>

\* the agent's output changes, and with it what is_complete() yields
OutputChanges(o) ==
    /\ state = "RUNNING"
    /\ o # predOut
    /\ predOut' = o
    /\ UNCHANGED <<command, state, minTimeout, maxTimeout, hasCheck, elapsed,
                   exited, exitAt, obsExit, obsPred, obsRaise, polls, caller,
                   loadVars, orderVars, predVars, cmpVars, harnessVars>>

\* one polling tick of the blocking call
Poll ==
    /\ state = "RUNNING"
    /\ LET out == PollOutcome(exited, predOut, hasCheck, elapsed,
                              minTimeout, maxTimeout)
           \* is_complete() is invoked unless the floor or the exit decided
           invoked == hasCheck /\ out \in {"predicate", "timeout", "wait"}
           next == CASE out = "exit" -> "COMPLETE_BY_EXIT"
                     [] out = "predicate" -> "COMPLETE_BY_PREDICATE"
                     [] out = "timeout" -> "TIMED_OUT"
                     \* an exception leaving the poll loop ends the call
                     [] out = "error" -> "FAILED"
                     [] OTHER -> "RUNNING"
       IN /\ state' = next
          /\ elapsed' = IF out \in {"floor", "wait"} THEN elapsed + 1
                        ELSE elapsed
          /\ obsExit' = (obsExit \/ out = "exit")
          /\ obsPred' = (obsPred \/ (invoked /\ predOut = "true"))
          /\ obsRaise' = (obsRaise \/ (invoked /\ predOut = "raise")
                                    \/ out = "error")
          /\ polls' = IF invoked \/ out = "error" THEN polls + 1 ELSE polls
          /\ caller' = IF next \in Terminal THEN PerformTaskOutcome(next)
                       ELSE IF next = "FAILED" THEN "PredicateError"
                       ELSE caller
    /\ UNCHANGED <<command, minTimeout, maxTimeout, hasCheck, exited, exitAt,
                   predOut, loadVars, orderVars, predVars, cmpVars, harnessVars>>

DriverNext == \/ Dispatch
              \/ ProcessExits
              \/ \E o \in {"false", "true", "raise"} : OutputChanges(o)
              \/ Poll

DriverSpec == DriverInit /\ [][DriverNext]_vars

\* the blocking call keeps polling and the command is sent once the
\* environment is set up
DriverFairSpec == DriverSpec /\ WF_vars(Dispatch) /\ WF_vars(Poll)

(***************************************************************************)
(* Claims about the session driver                                         *)
(***************************************************************************)
\* a step of the blocking call itself, not of the process or its output
PollStep == /\ state = "RUNNING"
            /\ exited' = exited
            /\ predOut' = predOut

\* C7: a run in which the polls never see process exit nor a true predicate
\* ends in TIMED_OUT at the max_timeout deadline and hands the caller the
\* timeout condition, never a result; and TIMED_OUT is reached only when
\* neither exit nor a true predicate was observed.
C7_TimeoutOutcome ==
    /\ [](state = "TIMED_OUT" =>
            /\ caller = "TimeoutError"
            /\ ~exited /\ ~obsExit
            /\ predOut # "true" /\ ~obsPred
            /\ elapsed >= command.max)
    /\ []((state \in Terminal /\ ~obsExit /\ ~obsPred) =>
            (state = "TIMED_OUT" /\ caller = "TimeoutError"))
    /\ [](state = "RUNNING" => (elapsed <= command.max /\ caller = "blocked"))
    /\ <>(obsExit \/ obsPred
            \/ (state = "TIMED_OUT" /\ caller = "TimeoutError"))

\* C7 witness: the predicate was polled at several ticks, never true, the
\* process never exited, and the run timed out.
C7_Witness == /\ state = "TIMED_OUT"
              /\ caller = "TimeoutError"
              /\ polls >= 2
              /\ ~exited
              /\ elapsed = command.max

\* C8: completion is never reported at an elapsed time below the command's
\* min_timeout, even when the process has exited or the predicate is true.
C8_MinTimeoutFloor ==
    /\ state \in {"COMPLETE_BY_EXIT", "COMPLETE_BY_PREDICATE"}
          => elapsed >= command.min
    /\ caller = "AgentResult" => elapsed >= command.min

\* C8 witness: the process exited more than a tick before the floor and
\* completion was reported exactly when the floor was reached.
C8_Witness == /\ state = "COMPLETE_BY_EXIT"
              /\ exitAt >= 0
              /\ exitAt + 1 < command.min
              /\ elapsed = command.min

\* C9: a polling tick at min_timeout <= elapsed < max_timeout that finds the
\* predicate true and the process still running ends the wait at that tick
\* in COMPLETE_BY_PREDICATE and returns to the caller.
C9_PredicateCompletes ==
    [][(/\ PollStep
        /\ predOut = "true"
        /\ ~exited
        /\ command.min <= elapsed
        /\ elapsed < command.max)
       => (/\ state' = "COMPLETE_BY_PREDICATE"
           /\ caller' = "AgentResult"
           /\ elapsed' = elapsed)]_vars

\* C9 witness: completion by predicate strictly between a positive floor
\* and the deadline, with the process still alive.
C9_Witness == /\ state = "COMPLETE_BY_PREDICATE"
              /\ ~exited
              /\ command.min >= 1
              /\ elapsed > command.min
              /\ elapsed < command.max

\* C10: a polling tick that can observe process exit ends in
\* COMPLETE_BY_EXIT, also when the predicate is true or the deadline has
\* passed at that tick; no tick with the process exited yields
\* COMPLETE_BY_PREDICATE or TIMED_OUT.
C10_ExitWins ==
    [][(PollStep /\ exited) =>
          /\ state' \in {"RUNNING", "COMPLETE_BY_EXIT"}
          /\ (elapsed >= command.min => state' = "COMPLETE_BY_EXIT")]_vars

\* C10 witness: exit, a true predicate and the deadline were all observable
\* at the tick that completed by exit.
C10_Witness == /\ state = "COMPLETE_BY_EXIT"
               /\ predOut = "true"
               /\ hasCheck
               /\ elapsed = command.max

\* C11: a polling tick at which the predicate raises counts as 'not
\* complete': the run stays RUNNING and goes on polling, the caller never
\* gets the exception, and the run still ends by exit, by a later true
\* predicate or by timeout.
C11_PredicateErrorSwallowed ==
    /\ [][(/\ PollStep
           /\ predOut = "raise"
           /\ ~exited
           /\ command.min <= elapsed
           /\ elapsed < command.max)
          => (/\ state' = "RUNNING"
              /\ caller' = "blocked"
              /\ elapsed' = elapsed + 1)]_vars
    /\ [](caller # "PredicateError" /\ state # "FAILED")
    /\ [](obsRaise => <>(state \in Terminal))
    /\ [](obsRaise /\ state \in Terminal =>
            caller = PerformTaskOutcome(state))

\* C11 witness: the predicate raised at some tick and the run later
\* completed by a true predicate.
C11_Witness == /\ obsRaise
               /\ state = "COMPLETE_BY_PREDICATE"
               /\ caller = "AgentResult"

(***************************************************************************)
(* The agent's completion predicate, asked against the tail of the output  *)
(* log while the agent command runs                                        *)
(***************************************************************************)
MaxTail == 3

\* kinds of line in the stream-json log: ordinary output, a truncated
\* final record, a well-formed final result record
LineKinds == {"text", "partial", "result"}

\* AbstractInstalledAgent._is_agent_output_complete, which ClaudeCodeAgent
\* inherits unchanged: "return False"
is_agent_output_complete(tail) == "false"

PredInit == /\ PredIdle
            /\ LoadIdle
            /\ OrderIdle
            /\ DriverIdle
            /\ CmpIdle
            /\ HarnessIdle

\* the agent appends one more line to its output log
WriteLine(l) ==
    /\ ~procExited
    /\ Len(tailLines) < MaxTail
    /\ tailLines' = Append(tailLines, l)
    /\ checkResult' = "none"
    /\ UNCHANGED <<procExited, loadVars, orderVars, driverVars, cmpVars, harnessVars>>

\* the agent process exits
AgentExits ==
    /\ ~procExited
    /\ procExited' = TRUE
    /\ UNCHANGED <<tailLines, checkResult, loadVars, orderVars, driverVars, cmpVars, harnessVars>>

\* completion_check(): lambda: self._is_agent_output_complete(container, file)
CheckComplete ==
    /\ checkResult' = is_agent_output_complete(tailLines)
    /\ UNCHANGED <<tailLines, procExited, loadVars, orderVars, driverVars, cmpVars, harnessVars>>

PredNext == \/ \E l \in LineKinds : WriteLine(l)
            \/ AgentExits
            \/ CheckComplete

PredSpec == PredInit /\ [][PredNext]_vars

HasMarker(tail) == \E i \in DOMAIN tail : tail[i] = "result"
OnlyPartialMarker(tail) == /\ ~HasMarker(tail)
                           /\ \E i \in DOMAIN tail : tail[i] = "partial"

\* C12: the agent's completion predicate returns true when the tail holds a
\* well-formed terminal marker, also while the process has not exited, and
\* returns false without raising when the tail holds only a partial marker.
C12_MarkerDetected ==
    checkResult # "none" =>
        /\ (HasMarker(tailLines) => checkResult = "true")
        /\ (OnlyPartialMarker(tailLines) => checkResult = "false")

(***************************************************************************)
(* Result comparator (fuzzy_compare.py)                                    *)
(***************************************************************************)
\* column labels, in the lexicographic order sorted() gives them
ColumnNames == <<"a", "b", "x", "y", "z">>
NameRank(n) == CHOOSE i \in DOMAIN ColumnNames : ColumnNames[i] = n

Range(f) == {f[i] : i \in DOMAIN f}
Abs(n) == IF n < 0 THEN -n ELSE n

\* atol=1e-5 and rtol=1e-5, with values held in units of 1e-6
Micro == 1000000
AtolMicro == 10
RtolInverse == 100000

RECURSIVE InsertValue(_, _)
InsertValue(x, s) ==
    IF s = <<>> THEN <<x>>
    ELSE IF x < s[1] THEN <<x>> \o s
    ELSE <<s[1]>> \o InsertValue(x, Tail(s))

\* series.sort_values().reset_index(drop=True)
RECURSIVE SortedValues(_)
SortedValues(v) ==
    IF v = <<>> THEN <<>>
    ELSE InsertValue(v[Len(v)], SortedValues(SubSeq(v, 1, Len(v) - 1)))

\* _is_numeric_series: pd.api.types.is_numeric_dtype(series.dtype)
is_numeric_series(dtype) == dtype \in {"int64", "float64"}

\* types_ok: equal dtype, or both numeric
TypesOk(gd, cd) ==
    gd = cd \/ (is_numeric_series(gd) /\ is_numeric_series(cd))

\* Series.equals: same dtype and the same values at every position
SeriesEquals(d1, v1, d2, v2) == d1 = d2 /\ v1 = v2

\* variant of IsClose with the numpy formula |a - b| <= atol + rtol * |b|
IsClose_AtolPlusRtol(a, b) ==
    Abs(a - b) <= AtolMicro + (Abs(b) \div RtolInverse)

\* closeness of two floats in pd.testing.assert_series_equal(atol, rtol):
\* |a - b| <= max(rtol * max(|a|, |b|), atol); the difference is a whole
\* number of units, so rtol * m can be rounded down
IsClose(a, b) ==
    Abs(a - b) <= Max2(Max2(Abs(a), Abs(b)) \div RtolInverse, AtolMicro)

\* assert_series_equal(astype(float), astype(float), check_dtype=False,
\* atol=1e-5, rtol=1e-5) does not raise
SeriesClose(v1, v2) ==
    /\ Len(v1) = Len(v2)
    /\ \A i \in DOMAIN v1 : IsClose(v1[i], v2[i])

\* a candidate column content-matches a gold column (lines 97-123)
ColumnFits(g, gi, c, ci) ==
    /\ TypesOk(g.dtypes[gi], c.dtypes[ci])
    /\ \/ SeriesEquals(g.dtypes[gi], SortedValues(g.vals[gi]),
                       c.dtypes[ci], SortedValues(c.vals[ci]))
       \/ /\ is_numeric_series(g.dtypes[gi])
          /\ is_numeric_series(c.dtypes[ci])
          /\ SeriesClose(SortedValues(g.vals[gi]), SortedValues(c.vals[ci]))

\* indices of the columns of df in sorted(df.columns) order
RECURSIVE SortedColumnsFrom(_, _)
SortedColumnsFrom(df, k) ==
    IF k > Len(ColumnNames) THEN <<>>
    ELSE LET here == {i \in DOMAIN df.names : df.names[i] = ColumnNames[k]}
         IN (IF here = {} THEN <<>> ELSE <<CHOOSE i \in here : TRUE>>)
            \o SortedColumnsFrom(df, k + 1)

SortedColumns(df) == SortedColumnsFrom(df, 1)

\* variant of FirstFit that takes the last fitting column
FirstFit_LastFit(g, gi, c, mapping) ==
    LET fits == {ci \in DOMAIN c.names :
                    /\ c.names[ci] \notin DOMAIN mapping
                    /\ ColumnFits(g, gi, c, ci)}
    IN IF fits = {} THEN 0
       ELSE CHOOSE ci \in fits : \A cj \in fits : ci >= cj

\* inner loop: the first column of comp_df.columns, not yet in the mapping,
\* that fits the gold column; 0 if there is none
FirstFit(g, gi, c, mapping) ==
    LET fits == {ci \in DOMAIN c.names :
                    /\ c.names[ci] \notin DOMAIN mapping
                    /\ ColumnFits(g, gi, c, ci)}
    IN IF fits = {} THEN 0
       ELSE CHOOSE ci \in fits : \A cj \in fits : ci <= cj

\* outer loop over sorted(gold_df.columns), from position k of order
RECURSIVE MatchLoop(_, _, _, _, _)
MatchLoop(g, c, order, k, mapping) ==
    IF k > Len(order) THEN mapping
    ELSE LET ci == FirstFit(g, order[k], c, mapping)
         IN MatchLoop(g, c, order, k + 1,
                      IF ci = 0 THEN mapping
                      ELSE mapping @@ (c.names[ci] :> g.names[order[k]]))

\* match_columns(gold_df, comp_df): the mapping {comp_col: gold_col}, or the
\* ValueError naming the set of unmapped gold columns
match_columns(g, c) ==
    LET mapping == MatchLoop(g, c, SortedColumns(g), 1, <<>>)
        unmapped == Range(g.names) \ Range(mapping)
    IN [ok |-> unmapped = {}, mapping |-> mapping, unmapped |-> unmapped]

\* diagnostics returned by compare
Verdict(res, msg, named, avail, n1, n2) ==
    [res |-> res, msg |-> msg, named |-> named, avail |-> avail,
     n1 |-> n1, n2 |-> n2]

\* comp_df.rename(columns=mapping): labels outside the mapping are kept
Renamed(c, mapping) ==
    [i \in DOMAIN c.names |->
        IF c.names[i] \in DOMAIN mapping THEN mapping[c.names[i]]
        ELSE c.names[i]]

\* df[cols] then sort_values(by=cols) raises ValueError when a label of cols
\* is carried by more than one column
DuplicateLabel(labels, cols) ==
    \E n \in cols : Cardinality({i \in DOMAIN labels : labels[i] = n}) > 1

\* rows of the columns idx (a sequence of column indices) of df
RowsOf(df, idx) ==
    [r \in 1..df.nrows |-> [k \in DOMAIN idx |-> df.vals[idx[k]][r]]]

RECURSIVE RowLess(_, _)
RowLess(r1, r2) ==
    IF r1 = <<>> THEN FALSE
    ELSE IF r1[1] # r2[1] THEN r1[1] < r2[1]
    ELSE RowLess(Tail(r1), Tail(r2))

RECURSIVE InsertRow(_, _)
InsertRow(x, s) ==
    IF s = <<>> THEN <<x>>
    ELSE IF RowLess(x, s[1]) THEN <<x>> \o s
    ELSE <<s[1]>> \o InsertRow(x, Tail(s))

\* df.sort_values(by=cols).reset_index(drop=True)
RECURSIVE SortRows(_)
SortRows(rows) ==
    IF rows = <<>> THEN <<>>
    ELSE InsertRow(rows[Len(rows)], SortRows(SubSeq(rows, 1, Len(rows) - 1)))

\* column k of a sequence of rows
ColumnOf(rows, k) == [r \in DOMAIN rows |-> rows[r][k]]

\* dtype of a column pair after numeric normalisation (lines 170-178)
Normalised(gd, cd) ==
    IF is_numeric_series(gd) /\ is_numeric_series(cd) THEN "float64" ELSE gd

\* variant of ScanColumns without the tolerance pass of lines 189-198
ScanColumns_ExactOnly(g, gidx, c, cidx) ==
    LET grows == SortRows(RowsOf(g, gidx))
        crows == SortRows(RowsOf(c, cidx))
        gd(k) == Normalised(g.dtypes[gidx[k]], c.dtypes[cidx[k]])
        cdt(k) == IF is_numeric_series(g.dtypes[gidx[k]])
                     /\ is_numeric_series(c.dtypes[cidx[k]])
                  THEN "float64" ELSE c.dtypes[cidx[k]]
        equalsAt(k) == SeriesEquals(gd(k), ColumnOf(grows, k),
                                    cdt(k), ColumnOf(crows, k))
        failsAt(k) ==
            /\ ~equalsAt(k)
        failing == {k \in DOMAIN gidx : failsAt(k)}
    IN IF \A k \in DOMAIN gidx : equalsAt(k)
       THEN Verdict("match", "none", {}, <<>>, 0, 0)
       ELSE IF failing = {}
       THEN Verdict("match", "none", {}, <<>>, 0, 0)
       ELSE LET k == CHOOSE k1 \in failing : \A k2 \in failing : k1 <= k2
                diff == {r \in DOMAIN grows : grows[r][k] # crows[r][k]}
                first == IF diff = {} THEN 1
                         ELSE CHOOSE r1 \in diff : \A r2 \in diff : r1 <= r2
            IN Verdict("mismatch", "differs", {g.names[gidx[k]]}, <<>>,
                       first - 1, 0)

\* the column-by-column scan after rename, reorder and row sort
\* (lines 181-208); gidx and cidx list the aligned column indices
ScanColumns(g, gidx, c, cidx) ==
    LET grows == SortRows(RowsOf(g, gidx))
        crows == SortRows(RowsOf(c, cidx))
        gd(k) == Normalised(g.dtypes[gidx[k]], c.dtypes[cidx[k]])
        cdt(k) == IF is_numeric_series(g.dtypes[gidx[k]])
                     /\ is_numeric_series(c.dtypes[cidx[k]])
                  THEN "float64" ELSE c.dtypes[cidx[k]]
        equalsAt(k) == SeriesEquals(gd(k), ColumnOf(grows, k),
                                    cdt(k), ColumnOf(crows, k))
        failsAt(k) ==
            /\ ~equalsAt(k)
            /\ ~(is_numeric_series(gd(k))
                 /\ SeriesClose(ColumnOf(grows, k), ColumnOf(crows, k)))
        failing == {k \in DOMAIN gidx : failsAt(k)}
    IN IF \A k \in DOMAIN gidx : equalsAt(k)
       THEN Verdict("match", "none", {}, <<>>, 0, 0)
       ELSE IF failing = {}
       THEN Verdict("match", "none", {}, <<>>, 0, 0)
       ELSE LET k == CHOOSE k1 \in failing : \A k2 \in failing : k1 <= k2
                diff == {r \in DOMAIN grows : grows[r][k] # crows[r][k]}
                first == IF diff = {} THEN 1
                         ELSE CHOOSE r1 \in diff : \A r2 \in diff : r1 <= r2
            IN Verdict("mismatch", "differs", {g.names[gidx[k]]}, <<>>,
                       first - 1, 0)

\* variant of QuickVerdict that counts the columns before the rows
QuickVerdict_ColumnsFirst(g, c) ==
    IF g.nrows = 0 /\ c.nrows = 0
    THEN Verdict("match", "none", {}, <<>>, 0, 0)
    ELSE IF Len(c.names) < Len(g.names)
    THEN Verdict("mismatch", "fewer_columns", {}, <<>>,
                 Len(c.names), Len(g.names))
    ELSE IF g.nrows # c.nrows
    THEN Verdict("mismatch", "row_count", {}, <<>>, g.nrows, c.nrows)
    ELSE NoVerdict

\* variant of QuickVerdict without the column-count check
QuickVerdict_NoColumnCount(g, c) ==
    IF g.nrows = 0 /\ c.nrows = 0
    THEN Verdict("match", "none", {}, <<>>, 0, 0)
    ELSE IF g.nrows # c.nrows
    THEN Verdict("mismatch", "row_count", {}, <<>>, g.nrows, c.nrows)
    ELSE NoVerdict

\* the early returns of compare (lines 141-151); NoVerdict when none is taken
QuickVerdict(g, c) ==
    IF g.nrows = 0 /\ c.nrows = 0
    THEN Verdict("match", "none", {}, <<>>, 0, 0)
    ELSE IF g.nrows # c.nrows
    THEN Verdict("mismatch", "row_count", {}, <<>>, g.nrows, c.nrows)
    ELSE IF Len(c.names) < Len(g.names)
    THEN Verdict("mismatch", "fewer_columns", {}, <<>>,
                 Len(c.names), Len(g.names))
    ELSE NoVerdict

\* variant of MatchFailed in which the ValueError leaves compare
MatchFailed_Propagates(m, c) ==
    Verdict("raise", "ValueError", m.unmapped, c.names, 0, 0)

\* except ValueError as e: return False, str(e)
MatchFailed(m, c) ==
    Verdict("mismatch", "unmatched", m.unmapped, c.names, 0, 0)

\* compare(gold_df, comp_df) -> (matches, diagnostic)
compare(g, c) ==
    IF QuickVerdict(g, c) # NoVerdict THEN QuickVerdict(g, c)
    ELSE LET m == match_columns(g, c)
         IN IF ~m.ok THEN MatchFailed(m, c)
            ELSE LET labels == Renamed(c, m.mapping)
                     gidx == SortedColumns(g)
                 IN IF DuplicateLabel(labels, Range(g.names))
                    THEN Verdict("raise", "ValueError", {}, <<>>, 0, 0)
                    ELSE LET cidx == [k \in DOMAIN gidx |->
                                        CHOOSE i \in DOMAIN labels :
                                            labels[i] = g.names[gidx[k]]]
                         IN ScanColumns(g, gidx, c, cidx)

\* ---- datasets handed to compare ----
MaxRows == 3
MaxGridRows == 2

Frame(names, dtypes, vals, nrows) ==
    [names |-> names, dtypes |-> dtypes, vals |-> vals, nrows |-> nrows]

\* column contents of r rows: the rotations of 1..r and the constant columns
\* (numbers in units of 1e-6; strings as their rank in sort order)
Columns(r) ==
    {[i \in 1..r |-> (((i + k) % r) + 1) * Micro] : k \in 1..r}
        \cup {[i \in 1..r |-> v * Micro] : v \in 1..2}

\* per-column dtypes of an n-column dataset read from CSV or from the database
Dtypes(n) ==
    {d \in [1..n -> {"int64", "object"}] : \A i \in 2..n : d[i] = "int64"}

FramesOf(ns, r) ==
    {Frame(ns, d, v, r) :
        d \in Dtypes(Len(ns)), v \in [1..Len(ns) -> Columns(r)]}

Frames(nameSeqs, maxRows) ==
    UNION {FramesOf(ns, r) : ns \in nameSeqs, r \in 0..maxRows}

GoldNames == {<<"a">>, <<"a", "b">>, <<"b", "a">>}
CompNames ==
    {<<"a">>, <<"x">>, <<"a", "b">>, <<"b", "a">>, <<"x", "y">>,
     <<"y", "x">>, <<"x", "a">>}

\* decimal grid of the tolerance cases: 1.0, 1.000001, 1.000015, 1.1, 2.0
Grid == {1000000, 1000001, 1000015, 1100000, 2000000}

\* a column of whole numbers may be read as int64, any numeric column as float64
DtypesOfValues(v) ==
    IF \A i \in DOMAIN v : v[i] % Micro = 0 THEN {"int64", "float64"}
    ELSE {"float64"}

GridFrames(names) ==
    UNION {{Frame(<<n>>, <<d>>, <<v>>, Len(v)) : d \in DtypesOfValues(v)} :
              n \in names, v \in UNION {[1..r -> Grid] : r \in 0..MaxGridRows}}

CompareInit ==
    /\ gold \in Frames(GoldNames, MaxRows)
    /\ comp \in Frames(CompNames, MaxRows)
    /\ verdict = NoVerdict
    /\ cmpPc = "ready"
    /\ LoadIdle /\ OrderIdle /\ DriverIdle /\ PredIdle /\ HarnessIdle

ToleranceInit ==
    /\ gold \in GridFrames({"a"})
    /\ comp \in GridFrames({"a", "x"})
    /\ verdict = NoVerdict
    /\ cmpPc = "ready"
    /\ LoadIdle /\ OrderIdle /\ DriverIdle /\ PredIdle /\ HarnessIdle

\* main: matches, reason = compare(gold_df, comp_df)
Compare ==
    /\ cmpPc = "ready"
    /\ verdict' = compare(gold, comp)
    /\ cmpPc' = "compared"
    /\ UNCHANGED <<gold, comp, loadVars, orderVars, driverVars, predVars,
                   harnessVars>>

CompareNext == Compare

CompareSpec == CompareInit /\ [][CompareNext]_vars

ToleranceSpec == ToleranceInit /\ [][CompareNext]_vars

\* the dataset df with its columns reordered by cp and its rows by rp
PermuteFrame(df, cp, rp) ==
    Frame([i \in DOMAIN df.names |-> df.names[cp[i]]],
          [i \in DOMAIN df.names |-> df.dtypes[cp[i]]],
          [i \in DOMAIN df.names |->
              [r \in 1..df.nrows |-> df.vals[cp[i]][rp[r]]]],
          df.nrows)

Reorderings(df) ==
    {PermuteFrame(df, cp, rp) :
        cp \in Permutations(DOMAIN df.names), rp \in Permutations(1..df.nrows)}

\* C13: the verdict of compare(gold, candidate) is the same for every
\* permutation of the rows and of the column order of gold, and for every
\* permutation of the rows and of the column order of candidate.
C13_OrderIndependent ==
    cmpPc = "compared" =>
        /\ \A g2 \in Reorderings(gold) : compare(g2, comp).res = verdict.res
        /\ \A c2 \in Reorderings(comp) : compare(gold, c2).res = verdict.res

\* c holds the rows of g in some other order, column by column, under
\* other (pairwise distinct) column names
RowsPermutedColumnsRenamed(g, c) ==
    /\ Len(c.names) = Len(g.names)
    /\ c.dtypes = g.dtypes
    /\ c.nrows = g.nrows
    /\ \E rp \in Permutations(1..g.nrows) :
          \A i \in DOMAIN g.names : \A r \in 1..g.nrows :
              c.vals[i][r] = g.vals[i][rp[r]]

\* C14: a candidate obtained from gold by permuting its rows and renaming
\* its columns injectively (candidate = gold included) is reported as a match
\* with no diagnostic.
C14_RenamedPermutedMatches ==
    (cmpPc = "compared" /\ RowsPermutedColumnsRenamed(gold, comp)) =>
        (verdict.res = "match" /\ verdict.msg = "none")

InsertAt(s, p, x) == SubSeq(s, 1, p - 1) \o <<x>> \o SubSeq(s, p, Len(s))

\* the dataset df with one more column, named n, at position p
WithColumn(df, p, n, d, v) ==
    Frame(InsertAt(df.names, p, n), InsertAt(df.dtypes, p, d),
          InsertAt(df.vals, p, v), df.nrows)

\* C15: extra candidate columns never cause a mismatch: if compare(gold,
\* candidate) is a match, compare(gold, candidate') is a match for every
\* candidate' obtained by adding a column, whatever its name, values and
\* position.
C15_ExtraColumnsIgnored ==
    (cmpPc = "compared" /\ verdict.res = "match") =>
        \A n \in Range(ColumnNames) \ Range(comp.names) :
            \A p \in 1..(Len(comp.names) + 1) :
                \A d \in {"int64", "object"} :
                    \A v \in Columns(comp.nrows) :
                        compare(gold, WithColumn(comp, p, n, d, v)).res
                            = "match"

\* C16: when gold and candidate are not both empty and their row counts
\* differ, compare returns a mismatch whose diagnostic is the row-count
\* message, whatever the column counts and column contents are.
C16_RowCountFirst ==
    (/\ cmpPc = "compared"
     /\ ~(gold.nrows = 0 /\ comp.nrows = 0)
     /\ gold.nrows # comp.nrows) =>
        verdict = Verdict("mismatch", "row_count", {}, <<>>,
                          gold.nrows, comp.nrows)

C16_Witness ==
    /\ cmpPc = "compared"
    /\ gold.nrows # comp.nrows
    /\ Len(comp.names) < Len(gold.names)
    /\ \A gi \in DOMAIN gold.names : \A ci \in DOMAIN comp.names :
          gold.dtypes[gi] # comp.dtypes[ci]
    /\ verdict.msg = "row_count"

\* gold has the columns {a, b}, the candidate only a, with equal row counts
LacksColumnB ==
    /\ Range(gold.names) = {"a", "b"}
    /\ comp.names = <<"a">>
    /\ gold.nrows = comp.nrows

\* C17 as stated: gold columns {a,b}, candidate columns {a}, equal row
\* counts: compare returns a mismatch whose diagnostic names the gold column
\* that is not covered (b).
C17_NamesMissingColumn ==
    (cmpPc = "compared" /\ LacksColumnB) =>
        (verdict.res = "mismatch" /\ "b" \in verdict.named)

\* C17 amended: gold columns {a,b}, candidate columns {a}, equal row counts
\* and at least one row: compare returns a mismatch whose diagnostic is the
\* fewer-columns message, which states the two column counts (1 and 2) and
\* names no column.
C17_FewerColumnsMessage ==
    (cmpPc = "compared" /\ LacksColumnB /\ gold.nrows > 0) =>
        verdict = Verdict("mismatch", "fewer_columns", {}, <<>>, 1, 2)

C17_Witness ==
    /\ cmpPc = "compared"
    /\ LacksColumnB
    /\ gold.nrows > 0
    /\ verdict.msg = "fewer_columns"
    /\ verdict.named = {}

\* gold columns that no candidate column fits at all
NoFit(g, c) ==
    {g.names[gi] : gi \in {i \in DOMAIN g.names :
                              \A ci \in DOMAIN c.names :
                                  ~ColumnFits(g, i, c, ci)}}

\* C18 as stated: if some gold column has no fitting candidate column left
\* in the pool, compare returns a mismatch, not an exception, and its
\* diagnostic names every gold column left unmatched.
C18_NamesEveryUnmatched ==
    (cmpPc = "compared" /\ match_columns(gold, comp).unmapped # {}) =>
        /\ verdict.res = "mismatch"
        /\ match_columns(gold, comp).unmapped \subseteq verdict.named

\* C18 amended: if the row counts are equal and not zero, the candidate has
\* at least as many columns as gold, and some gold column has no fitting
\* candidate column left in the pool, compare returns a mismatch, not an
\* exception, and its diagnostic names every gold column left unmatched.
C18_NamesEveryUnmatchedWhenReached ==
    (/\ cmpPc = "compared"
     /\ gold.nrows = comp.nrows
     /\ gold.nrows > 0
     /\ Len(comp.names) >= Len(gold.names)) =>
        LET unmapped == match_columns(gold, comp).unmapped
        IN unmapped # {} =>
              /\ verdict.res = "mismatch"
              /\ verdict.msg = "unmatched"
              /\ verdict.named = unmapped
              /\ NoFit(gold, comp) \subseteq verdict.named
              /\ verdict.avail = comp.names

C18_Witness ==
    /\ cmpPc = "compared"
    /\ verdict.msg = "unmatched"
    /\ verdict.named = {"a", "b"}
    /\ Len(comp.names) = 2

\* both datasets have the single numeric column and the same row count
SingleNumericColumns ==
    /\ Len(gold.names) = 1 /\ Len(comp.names) = 1
    /\ is_numeric_series(gold.dtypes[1]) /\ is_numeric_series(comp.dtypes[1])
    /\ gold.nrows = comp.nrows

\* every pair at the same position of the two ascending value sequences
\* satisfies the relation Close
PairsSatisfy(Close(_, _)) ==
    \A i \in 1..gold.nrows :
        Close(SortedValues(gold.vals[1])[i], SortedValues(comp.vals[1])[i])

\* |g - c| <= 1e-5 + 1e-5 * |c|, in units of 1e-6
AtolPlusRtol(g, c) == Abs(g - c) <= 10 + (Abs(c) \div 100000)

\* |g - c| <= max(1e-5 * max(|g|, |c|), 1e-5), in units of 1e-6
MaxOfRtolAtol(g, c) ==
    Abs(g - c) <= Max2(Max2(Abs(g), Abs(c)) \div 100000, 10)

\* C19 as stated: for single-column numeric datasets of equal row count,
\* compare reports a match exactly when, after sorting each side ascending,
\* every pair (g, c) satisfies |g - c| <= 1e-5 + 1e-5*|c|.
C19_ToleranceAtolPlusRtol ==
    (cmpPc = "compared" /\ SingleNumericColumns) =>
        (verdict.res = "match" <=> PairsSatisfy(AtolPlusRtol))

\* C19 amended: for single-column numeric datasets of equal row count,
\* compare reports a match exactly when, after sorting each side ascending,
\* every pair (g, c) satisfies |g - c| <= max(1e-5*max(|g|,|c|), 1e-5)
\* (1.000001 vs 1.0 matches; 1.000015 vs 1.0 and 1.1 vs 1.0 do not).
C19_ToleranceMaxOfRtolAtol ==
    (cmpPc = "compared" /\ SingleNumericColumns) =>
        (verdict.res = "match" <=> PairsSatisfy(MaxOfRtolAtol))

C19_Witness ==
    /\ cmpPc = "compared"
    /\ SingleNumericColumns
    /\ gold.vals[1] = <<1000001, 2000000>>
    /\ comp.vals[1] = <<2000000, 1000000>>
    /\ verdict.res = "match"

\* C20: compare is total: for every pair of datasets it returns either
\* (match, no diagnostic) or (mismatch, a diagnostic), and never raises.
C20_CompareTotal ==
    cmpPc = "compared" =>
        \/ verdict.res = "match" /\ verdict.msg = "none"
        \/ verdict.res = "mismatch" /\ verdict.msg # "none"

(***************************************************************************)
(* The comparator script: main() of fuzzy_compare.py                       *)
(***************************************************************************)
MaxScriptRows == 1

\* what an earlier run may have left in the database
EarlierTables ==
    {NoTable,
     [state |-> "stale", rows |-> 0, error |-> "none"],
     [state |-> "stale", rows |-> 1, error |-> "row_count"]}

MainInit ==
    /\ gold \in Frames({<<"a">>}, MaxScriptRows)
    /\ comp \in Frames({<<"a">>, <<"x", "a">>}, MaxScriptRows)
    /\ verdict = NoVerdict
    /\ cmpPc = "ready"
    /\ goldFile \in {"ok", "unreadable"}
    /\ resultTable \in {"ok", "unreadable"}
    /\ matchTable \in EarlierTables
    /\ mainPc = "start"
    /\ LoadIdle /\ OrderIdle /\ DriverIdle /\ PredIdle
    /\ PtIdle /\ PluginIdle /\ ScanIdle /\ PoolIdle /\ OrchIdle

\* gold_df = pd.read_csv(args.gold_csv_path): an exception leaves main
\* through the finally clause, which only closes the connection
ReadGold ==
    /\ mainPc = "start"
    /\ mainPc' = IF goldFile = "ok" THEN "gold" ELSE "crashed"
    /\ UNCHANGED <<goldFile, resultTable, matchTable, cmpVars, loadVars,
                   orderVars, driverVars, predVars, ptVars, pluginVars,
                   scanVars, poolVars, orchVars>>

\* result_df = conn.execute("SELECT * FROM ...").fetchdf(); on an exception
\* the error is written to fuzzy_match_result and main returns
ReadResult ==
    /\ mainPc = "gold"
    /\ IF resultTable = "ok"
       THEN mainPc' = "result" /\ UNCHANGED matchTable
       ELSE /\ matchTable' = [state |-> "written", rows |-> 1,
                              error |-> "unreadable"]
            /\ mainPc' = "done"
    /\ UNCHANGED <<goldFile, resultTable, cmpVars, loadVars, orderVars,
                   driverVars, predVars, ptVars, pluginVars, scanVars,
                   poolVars, orchVars>>

\* is_match, error_msg = compare(gold_df, result_df), outside any except
RunCompare ==
    /\ mainPc = "result"
    /\ verdict' = compare(gold, comp)
    /\ cmpPc' = "compared"
    /\ mainPc' = IF verdict'.res = "raise" THEN "crashed" ELSE "compared"
    /\ UNCHANGED <<gold, comp, goldFile, resultTable, matchTable, loadVars,
                   orderVars, driverVars, predVars, ptVars, pluginVars,
                   scanVars, poolVars, orchVars>>

\* CREATE OR REPLACE TABLE fuzzy_match_result: no row on a match, else one
\* row holding the diagnostic
WriteVerdict ==
    /\ mainPc = "compared"
    /\ matchTable' = IF verdict.res = "match"
                     THEN [state |-> "written", rows |-> 0, error |-> "none"]
                     ELSE [state |-> "written", rows |-> 1,
                           error |-> verdict.msg]
    /\ mainPc' = "done"
    /\ UNCHANGED <<goldFile, resultTable, cmpVars, loadVars, orderVars,
                   driverVars, predVars, ptVars, pluginVars, scanVars,
                   poolVars, orchVars>>

MainNext == ReadGold \/ ReadResult \/ RunCompare \/ WriteVerdict

MainSpec == MainInit /\ [][MainNext]_vars

\* C21: every run of the comparator script replaces fuzzy_match_result with
\* this run's verdict: zero rows iff the comparison matched, otherwise one
\* row whose error column holds the diagnostic (also when the result table
\* cannot be read); no run ends leaving an earlier run's table or no table.
C21_TableHoldsVerdict ==
    mainPc \in {"done", "crashed"} =>
        /\ matchTable.state = "written"
        /\ (matchTable.rows = 0 <=>
                (resultTable = "ok" /\ verdict.res = "match"))
        /\ (matchTable.rows # 0 =>
                /\ matchTable.rows = 1
                /\ matchTable.error = IF resultTable = "ok" THEN verdict.msg
                                      ELSE "unreadable")

(***************************************************************************)
(* perform_task: environment setup, agent commands, result                 *)
(***************************************************************************)
MaxCommands == 2

\* metrics _parse_agent_output may find in the agent's output
ParsedMetrics ==
    [input_tokens : {0, 10}, output_tokens : {0, 20}, cache_tokens : {0},
     num_turns : {0, 3}, runtime_ms : {0, 100}, cost_usd : {0, 5}]

AgentResult(m, fm) ==
    [returned |-> TRUE, failure_mode |-> fm,
     input_tokens |-> m.input_tokens, output_tokens |-> m.output_tokens,
     cache_tokens |-> m.cache_tokens, num_turns |-> m.num_turns,
     runtime_ms |-> m.runtime_ms, cost_usd |-> m.cost_usd]

\* the AgentResult of the except TimeoutError clause
SetupTimeoutResult ==
    AgentResult([input_tokens |-> 0, output_tokens |-> 0, cache_tokens |-> 0,
                 num_turns |-> 0, runtime_ms |-> 0, cost_usd |-> 0],
                "AGENT_SETUP_TIMEOUT")

PtInit ==
    /\ useMcp \in BOOLEAN
    /\ toSend \in 0..MaxCommands
    /\ timedOut = "none"
    /\ ptPc = "env"
    /\ sent = 0
    /\ logRead = FALSE
    /\ ptResult = NoResult
    /\ LoadIdle /\ OrderIdle /\ DriverIdle /\ PredIdle /\ CmpIdle
    /\ ScriptIdle /\ PluginIdle /\ ScanIdle /\ PoolIdle /\ OrchIdle

\* send_keys("source /installed-agent/setup-env.sh", block=True,
\* max_timeout_sec=setup_timeout_sec); t: the call raises TimeoutError
EnvSetup(t) ==
    /\ ptPc = "env"
    /\ IF t
       THEN /\ timedOut' = "env"
            /\ ptResult' = SetupTimeoutResult
            /\ ptPc' = "returned"
       ELSE /\ ptPc' = IF useMcp THEN "mcp" ELSE "agent"
            /\ UNCHANGED <<timedOut, ptResult>>
    /\ UNCHANGED <<useMcp, toSend, sent, logRead, loadVars, orderVars,
                   driverVars, predVars, cmpVars, scriptVars, pluginVars,
                   scanVars, poolVars, orchVars>>

\* variant of McpSetup in which the TimeoutError leaves perform_task
McpSetup_Propagates(t) ==
    /\ ptPc = "mcp"
    /\ IF t
       THEN /\ timedOut' = "mcp"
            /\ ptPc' = "raised"
            /\ UNCHANGED ptResult
       ELSE /\ ptPc' = "agent"
            /\ UNCHANGED <<timedOut, ptResult>>
    /\ UNCHANGED <<useMcp, toSend, sent, logRead, loadVars, orderVars,
                   driverVars, predVars, cmpVars, scriptVars, pluginVars,
                   scanVars, poolVars, orchVars>>

\* send_keys("bash /scripts/setup-dbt-mcp.sh ...", block=True,
\* max_timeout_sec=setup_timeout_sec), inside the same try
McpSetup(t) ==
    /\ ptPc = "mcp"
    /\ IF t
       THEN /\ timedOut' = "mcp"
            /\ ptResult' = SetupTimeoutResult
            /\ ptPc' = "returned"
       ELSE /\ ptPc' = "agent"
            /\ UNCHANGED <<timedOut, ptResult>>
    /\ UNCHANGED <<useMcp, toSend, sent, logRead, loadVars, orderVars,
                   driverVars, predVars, cmpVars, scriptVars, pluginVars,
                   scanVars, poolVars, orchVars>>

\* session.send_command(modified_command, completion_check) for the next
\* agent command; its TimeoutError is not caught
SendAgentCommand(t) ==
    /\ ptPc = "agent"
    /\ sent < toSend
    /\ sent' = sent + 1
    /\ IF t
       THEN timedOut' = "agent" /\ ptPc' = "raised"
       ELSE UNCHANGED <<timedOut, ptPc>>
    /\ UNCHANGED <<useMcp, toSend, logRead, ptResult, loadVars, orderVars,
                   driverVars, predVars, cmpVars, scriptVars, pluginVars,
                   scanVars, poolVars, orchVars>>

\* output = session.container.exec_run(["cat", agent_output_file])
ReadLog ==
    /\ ptPc = "agent"
    /\ sent = toSend
    /\ logRead' = TRUE
    /\ ptPc' = "log"
    /\ UNCHANGED <<useMcp, toSend, timedOut, sent, ptResult, loadVars,
                   orderVars, driverVars, predVars, cmpVars, scriptVars,
                   pluginVars, scanVars, poolVars, orchVars>>

\* return AgentResult(**parsed_metrics)
ReturnResult(m) ==
    /\ ptPc = "log"
    /\ ptResult' = AgentResult(m, "NONE")
    /\ ptPc' = "returned"
    /\ UNCHANGED <<useMcp, toSend, timedOut, sent, logRead, loadVars,
                   orderVars, driverVars, predVars, cmpVars, scriptVars,
                   pluginVars, scanVars, poolVars, orchVars>>

PtNext ==
    \/ \E t \in BOOLEAN : EnvSetup(t)
    \/ \E t \in BOOLEAN : McpSetup(t)
    \/ \E t \in BOOLEAN : SendAgentCommand(t)
    \/ ReadLog
    \/ \E m \in ParsedMetrics : ReturnResult(m)

PtSpec == PtInit /\ [][PtNext]_vars

\* C22: if either blocking environment-setup command times out,
\* perform_task returns an AgentResult with failure_mode AGENT_SETUP_TIMEOUT
\* and all token, turn, runtime and cost metrics zero, without raising; no
\* agent command is sent and the agent output log is not read afterwards.
C22_SetupTimeoutResult ==
    timedOut \in {"env", "mcp"} =>
        /\ ptPc = "returned"
        /\ ptResult.returned
        /\ ptResult.failure_mode = "AGENT_SETUP_TIMEOUT"
        /\ ptResult.input_tokens = 0 /\ ptResult.output_tokens = 0
        /\ ptResult.cache_tokens = 0 /\ ptResult.num_turns = 0
        /\ ptResult.runtime_ms = 0 /\ ptResult.cost_usd = 0
        /\ sent = 0
        /\ ~logRead

C22_Witness ==
    /\ timedOut = "mcp"
    /\ toSend > 0
    /\ ptPc = "returned"
    /\ ptResult.failure_mode = "AGENT_SETUP_TIMEOUT"

(***************************************************************************)
(* Plugin set resolution (plugins/loader.py, models/plugin_set.py)         *)
(***************************************************************************)
MaxSets == 2
MaxNames == 2

Agents == {"claude", "gemini"}
SetNames == {"p", "q"}

\* PluginSet.agents: None (given = FALSE) or a list of agent names
AgentLists ==
    {[given |-> FALSE, list |-> {}]}
        \cup {[given |-> TRUE, list |-> {a}] : a \in Agents}

PluginSets == [name : SetNames, default : BOOLEAN, agents : AgentLists]

\* PluginSet.is_compatible_with_agent
is_compatible_with_agent(ps, a) ==
    IF ~ps.agents.given THEN TRUE ELSE a \in ps.agents.list

\* variant of get_defaults that returns every set
get_defaults_All(sets) == sets

\* PluginSetsConfig.get_defaults
get_defaults(sets) ==
    LET IsDefault(ps) == ps.default IN SelectSeq(sets, IsDefault)

\* PluginSetsConfig.get_by_name: index of the first set of that name, 0 for
\* None
get_by_name(sets, n) ==
    LET hits == {i \in DOMAIN sets : sets[i].name = n}
    IN IF hits = {} THEN 0 ELSE CHOOSE i \in hits : \A j \in hits : i <= j

\* PluginSetsConfig.get_by_names: raises ValueError at the first unknown name
get_by_names(sets, ns) ==
    IF \E k \in DOMAIN ns : get_by_name(sets, ns[k]) = 0
    THEN [out |-> "ValueError", sets |-> <<>>]
    ELSE [out |-> "returned",
          sets |-> [k \in DOMAIN ns |-> sets[get_by_name(sets, ns[k])]]]

\* PluginSetLoader.resolve_plugin_sets on a loaded configuration
resolve_plugin_sets(sets, ns, a) ==
    LET Compatible(ps) == is_compatible_with_agent(ps, a)
        explicit == ns.given /\ ns.list # <<>>
        byNames == get_by_names(sets, ns.list)
        plugin_sets == IF explicit THEN byNames.sets ELSE get_defaults(sets)
        compatible == SelectSeq(plugin_sets, Compatible)
    IN IF explicit /\ byNames.out = "ValueError" THEN byNames
       ELSE IF explicit /\ \E k \in DOMAIN plugin_sets :
                               ~Compatible(plugin_sets[k])
       THEN [out |-> "ValueError", sets |-> <<>>]
       ELSE IF compatible = <<>> THEN [out |-> "ValueError", sets |-> <<>>]
       ELSE [out |-> "returned", sets |-> compatible]

PluginInit ==
    /\ configFile \in
          {[exists |-> FALSE, sets |-> <<>>]}
              \cup {[exists |-> TRUE, sets |-> c] :
                       c \in SeqsUpTo(PluginSets, MaxSets)}
    /\ config \in {[loaded |-> FALSE, sets |-> <<>>],
                   [loaded |-> configFile.exists, sets |-> configFile.sets]}
    /\ plugin_set_names \in
          {[given |-> FALSE, list |-> <<>>]}
              \cup {[given |-> TRUE, list |-> l] :
                       l \in SeqsUpTo(SetNames, MaxNames)}
    /\ agent_name \in Agents
    /\ resolved = Pending
    /\ LoadIdle /\ OrderIdle /\ DriverIdle /\ PredIdle /\ CmpIdle
    /\ ScriptIdle /\ PtIdle /\ ScanIdle /\ PoolIdle /\ OrchIdle

\* resolve_plugin_sets: load() first when no configuration is held; load()
\* raises FileNotFoundError when the file does not exist
Resolve ==
    /\ resolved = Pending
    /\ IF ~config.loaded /\ ~configFile.exists
       THEN /\ resolved' = [out |-> "FileNotFoundError", sets |-> <<>>]
            /\ UNCHANGED config
       ELSE /\ config' = IF config.loaded THEN config
                         ELSE [loaded |-> TRUE, sets |-> configFile.sets]
            /\ resolved' = resolve_plugin_sets(config'.sets,
                                               plugin_set_names, agent_name)
    /\ UNCHANGED <<configFile, plugin_set_names, agent_name, loadVars,
                   orderVars, driverVars, predVars, cmpVars, scriptVars,
                   ptVars, scanVars, poolVars, orchVars>>

PluginNext == Resolve

PluginSpec == PluginInit /\ [][PluginNext]_vars

\* the request names plugin sets (a non-empty list)
ExplicitNames == plugin_set_names.given /\ plugin_set_names.list # <<>>

\* the sets of the configuration that are default and accept the agent, in
\* configuration order
CompatibleDefaults ==
    LET Wanted(ps) ==
            /\ ps.default
            /\ (ps.agents.given => agent_name \in ps.agents.list)
    IN SelectSeq(config.sets, Wanted)

\* the first set of the configuration carrying the name n accepts the agent
NamedAndCompatible(n) ==
    \E i \in DOMAIN config.sets :
        /\ config.sets[i].name = n
        /\ \A j \in 1..(i - 1) : config.sets[j].name # n
        /\ (config.sets[i].agents.given
               => agent_name \in config.sets[i].agents.list)

\* what the claim says of a finished call
ResolvedAsClaimed ==
    /\ resolved.out \in {"ValueError", "returned"}
    /\ resolved.out = "returned" =>
          /\ resolved.sets # <<>>
          /\ \A k \in DOMAIN resolved.sets :
                resolved.sets[k].agents.given
                    => agent_name \in resolved.sets[k].agents.list
    /\ ExplicitNames =>
          /\ resolved.out = "ValueError" <=>
                \E k \in DOMAIN plugin_set_names.list :
                    ~NamedAndCompatible(plugin_set_names.list[k])
          /\ resolved.out = "returned" =>
                /\ Len(resolved.sets) = Len(plugin_set_names.list)
                /\ \A k \in DOMAIN resolved.sets :
                      /\ resolved.sets[k].name = plugin_set_names.list[k]
                      /\ \E i \in DOMAIN config.sets :
                            config.sets[i] = resolved.sets[k]
    /\ ~ExplicitNames =>
          /\ resolved.out = "ValueError" <=> CompatibleDefaults = <<>>
          /\ resolved.out = "returned" => resolved.sets = CompatibleDefaults

MaxDirs == 3

\* directory names and task ids, each in lexicographic order
DirNames == <<"d1", "d2", "d3">>
TaskIds == <<"t1", "t2">>
DirRank(n) == CHOOSE i \in DOMAIN DirNames : DirNames[i] = n
IdRank(n) == CHOOSE i \in DOMAIN TaskIds : TaskIds[i] = n

\* what a directory entry can be: a task directory with a valid task.yaml,
\* an entry that is skipped (no directory, hidden, no task.yaml), or a task
\* directory whose task.yaml fails to load
TaskYamls ==
    [kind : {"task"}, task_id : Range(TaskIds), status : {"ready", "dev"},
     db_type : {"duckdb", "snowflake"}, project_type : {"dbt"}]
        \cup [kind : {"skip", "broken"}, task_id : {"t1"}, status : {"dev"},
              db_type : {"duckdb"}, project_type : {"dbt"}]

\* directory listings: entries with pairwise different names, in any order
Listings ==
    {l \in UNION {[1..k -> Range(DirNames)] : k \in 0..MaxDirs} :
        \A i, j \in DOMAIN l : i # j => l[i] # l[j]}

\* sorted(self._tasks_dir.iterdir()): ascending by path
SortedListing(es) ==
    LET Before(i) == Cardinality({j \in DOMAIN es :
                                     DirRank(es[j].dir) < DirRank(es[i].dir)})
    IN [k \in DOMAIN es |-> es[CHOOSE i \in DOMAIN es : Before(i) = k - 1]]

\* the body of the loop keeps the entry (lines 87-115)
Keeps(e, w) ==
    /\ e.yaml.kind = "task"
    /\ (w.task_ids = {} \/ e.yaml.task_id \in w.task_ids)
    /\ (w.status = "any" \/ e.yaml.status = w.status)
    /\ ((w.db_type = "any" /\ w.project_type = "any")
        \/ ((w.db_type = "any" \/ e.yaml.db_type = w.db_type)
            /\ (w.project_type = "any"
                \/ e.yaml.project_type = w.project_type)))

ScanInit ==
    /\ \E l \in Listings :
          entries \in {[i \in DOMAIN l |-> [dir |-> l[i], yaml |-> y[i]]] :
                          y \in [DOMAIN l -> TaskYamls]}
    /\ wanted \in [task_ids : {{}, {"t1"}}, status : {"any", "ready"},
                   db_type : {"any", "duckdb"},
                   project_type : {"any", "dbt-fusion"}]
    /\ scanIdx = 1
    /\ found = <<>>
    /\ scanPc = "start"
    /\ LoadIdle /\ OrderIdle /\ DriverIdle /\ PredIdle /\ CmpIdle
    /\ ScriptIdle /\ PtIdle /\ PluginIdle /\ PoolIdle /\ OrchIdle

\* for task_dir in sorted(self._tasks_dir.iterdir()):
ScanStart ==
    /\ scanPc = "start"
    /\ scanPc' = "loop"
    /\ UNCHANGED <<entries, wanted, scanIdx, found, loadVars, orderVars,
                   driverVars, predVars, cmpVars, scriptVars, ptVars,
                   pluginVars, poolVars, orchVars>>

\* one pass of the loop body: skip, or tasks.append(task_info)
ScanEntry ==
    /\ scanPc = "loop"
    /\ scanIdx <= Len(entries)
    /\ LET e == SortedListing(entries)[scanIdx]
       IN found' = IF Keeps(e, wanted) THEN Append(found, e.yaml) ELSE found
    /\ scanIdx' = scanIdx + 1
    /\ UNCHANGED <<entries, wanted, scanPc, loadVars, orderVars, driverVars,
                   predVars, cmpVars, scriptVars, ptVars, pluginVars,
                   poolVars, orchVars>>

\* return tasks
ScanReturn ==
    /\ scanPc = "loop"
    /\ scanIdx > Len(entries)
    /\ scanPc' = "returned"
    /\ UNCHANGED <<entries, wanted, scanIdx, found, loadVars, orderVars,
                   driverVars, predVars, cmpVars, scriptVars, ptVars,
                   pluginVars, poolVars, orchVars>>

ScanNext == ScanStart \/ ScanEntry \/ ScanReturn

ScanSpec == ScanInit /\ [][ScanNext]_vars

\* C24: TaskScanner.scan returns its TaskInfo objects sorted ascending by
\* task_id, for every tasks directory, including directories whose name
\* differs from the task_id declared in their task.yaml.
C24_SortedByTaskId ==
    scanPc = "returned" =>
        \A i, j \in DOMAIN found :
            i < j => IdRank(found[i].task_id) <= IdRank(found[j].task_id)

(***************************************************************************)
(* Worker pool: N workers fed from the ordered queue                       *)
(***************************************************************************)
MaxQueue == 3
MaxWorkers == 2

PoolItems == [name : TaskNames, key : {"base"}]
PoolHintMaps == UNION {[D -> MsValues] : D \in SUBSET {"fast", "task"}}
Free == [name |-> "none", key |-> "none"]

PoolInit ==
    /\ poolHints \in PoolHintMaps
    /\ \E L \in SeqsUpTo(PoolItems, MaxQueue) : queue = SortTasks(L, poolHints)
    /\ \E n \in 1..MaxWorkers : workers = [w \in 1..n |-> Free]
    /\ started = <<>>
    /\ LoadIdle /\ OrderIdle /\ DriverIdle /\ PredIdle /\ CmpIdle
    /\ ScriptIdle /\ PtIdle /\ PluginIdle /\ ScanIdle /\ OrchIdle

\* variant of TakeWork in which a free worker takes the last item
TakeWork_FromTail(w) ==
    /\ workers[w] = Free
    /\ queue # <<>>
    /\ workers' = [workers EXCEPT ![w] = queue[Len(queue)]]
    /\ started' = Append(started, queue[Len(queue)])
    /\ queue' = SubSeq(queue, 1, Len(queue) - 1)
    /\ UNCHANGED <<poolHints, loadVars, orderVars, driverVars, predVars,
                   cmpVars, scriptVars, ptVars, pluginVars, scanVars,
                   orchVars>>

\* a free worker takes the item at the head of the queue and starts it
TakeWork(w) ==
    /\ workers[w] = Free
    /\ queue # <<>>
    /\ workers' = [workers EXCEPT ![w] = Head(queue)]
    /\ started' = Append(started, Head(queue))
    /\ queue' = Tail(queue)
    /\ UNCHANGED <<poolHints, loadVars, orderVars, driverVars, predVars,
                   cmpVars, scriptVars, ptVars, pluginVars, scanVars,
                   orchVars>>

\* a worker completes its item and becomes free
FinishWork(w) ==
    /\ workers[w] # Free
    /\ workers' = [workers EXCEPT ![w] = Free]
    /\ UNCHANGED <<queue, poolHints, started, loadVars, orderVars,
                   driverVars, predVars, cmpVars, scriptVars, ptVars,
                   pluginVars, scanVars, orchVars>>

PoolNext ==
    \/ \E w \in DOMAIN workers : TakeWork(w)
    \/ \E w \in DOMAIN workers : FinishWork(w)

PoolSpec == PoolInit /\ [][PoolNext]_vars

Hinted(t) == TaskId(t) \in DOMAIN poolHints

\* C25: with a fixed pool of N workers taking items from the head of the
\* ordered queue, no hinted item is started before every unhinted item has
\* been started, and among hinted items none is started before an item with
\* a strictly larger hint, for every N and every interleaving.
C25_StartOrder ==
    \A i \in DOMAIN started :
        Hinted(started[i]) =>
            /\ \A k \in DOMAIN queue : Hinted(queue[k])
            /\ \A j \in DOMAIN started : j > i => Hinted(started[j])
            /\ \A k \in DOMAIN queue :
                  poolHints[TaskId(queue[k])]
                      <= poolHints[TaskId(started[i])]
            /\ \A j \in DOMAIN started :
                  j > i => poolHints[TaskId(started[j])]
                              <= poolHints[TaskId(started[i])]

C25_Witness ==
    /\ Len(workers) = 2
    /\ Len(started) = 3
    /\ ~Hinted(started[1])
    /\ Hinted(started[2]) /\ Hinted(started[3])
    /\ poolHints[TaskId(started[2])] > poolHints[TaskId(started[3])]
    /\ workers[1] = started[3]
    /\ workers[2] = started[2]

\* the candidate column index assigned to gold column gi by mapping m
\* (a function from candidate names to gold names), 0 if none
AssignedTo(m, gi) ==
    LET hits == {ci \in DOMAIN comp.names :
                    /\ comp.names[ci] \in DOMAIN m
                    /\ m[comp.names[ci]] = gold.names[gi]}
    IN IF hits = {} THEN 0 ELSE CHOOSE ci \in hits : TRUE

\* candidate column cj is held by a gold column that precedes gold column gi
\* in lexicographic name order
ClaimedEarlier(m, cj, gi) ==
    /\ comp.names[cj] \in DOMAIN m
    /\ NameRank(m[comp.names[cj]]) < NameRank(gold.names[gi])

\* C26: column matching is greedy first-fit: gold columns are taken in
\* lexicographic name order, each claims the first not-yet-claimed candidate
\* column (in the candidate's column order) that is type-compatible and whose
\* sorted values are equal exactly or within tolerance, a claimed column is
\* never offered again, and on success the mapping assigns every gold column
\* a distinct candidate column.
C26_GreedyFirstFit ==
    (cmpPc = "compared" /\ QuickVerdict(gold, comp) = NoVerdict) =>
        LET r == match_columns(gold, comp)
            m == r.mapping
        IN /\ DOMAIN m \subseteq Range(comp.names)
           /\ \A gi \in DOMAIN gold.names :
                 LET ci == AssignedTo(m, gi)
                 IN /\ Cardinality({cj \in DOMAIN comp.names :
                           /\ comp.names[cj] \in DOMAIN m
                           /\ m[comp.names[cj]] = gold.names[gi]}) <= 1
                    /\ ci # 0 => ColumnFits(gold, gi, comp, ci)
                    /\ \A cj \in DOMAIN comp.names :
                          (ci = 0 \/ cj < ci) =>
                              \/ ~ColumnFits(gold, gi, comp, cj)
                              \/ ClaimedEarlier(m, cj, gi)
           /\ r.ok <=> \A gi \in DOMAIN gold.names : AssignedTo(m, gi) # 0
           /\ r.ok => Cardinality(DOMAIN m) = Len(gold.names)

C26_Witness ==
    /\ cmpPc = "compared"
    /\ QuickVerdict(gold, comp) = NoVerdict
    /\ match_columns(gold, comp).ok
    /\ \E gi \in DOMAIN gold.names :
          /\ AssignedTo(match_columns(gold, comp).mapping, gi) = 2
          /\ ColumnFits(gold, gi, comp, 1)

\* ---- two-column datasets with values near the tolerance ----
MaxPairRows == 2

\* decimal values 1.0, 1.000001, 1.000015, 2.0
PairGrid == {1000000, 1000001, 1000015, 2000000}

\* a float column a and a whole-number column b, under the given names
PairFrames(nameSeqs) ==
    UNION {{Frame(ns, <<"float64", "int64">>, <<va, vb>>, r) :
               va \in [1..r -> PairGrid],
               vb \in [1..r -> {Micro, 2 * Micro}]} :
              ns \in nameSeqs, r \in 1..MaxPairRows}

PairInit ==
    /\ gold \in PairFrames({<<"a", "b">>})
    /\ comp \in PairFrames({<<"a", "b">>, <<"y", "x">>})
    /\ verdict = NoVerdict
    /\ cmpPc = "ready"
    /\ LoadIdle /\ OrderIdle /\ DriverIdle /\ PredIdle /\ HarnessIdle

PairSpec == PairInit /\ [][CompareNext]_vars

\* compare gets as far as the final comparison of line 181
ReachesFinalComparison(g, c) ==
    /\ QuickVerdict(g, c) = NoVerdict
    /\ match_columns(g, c).ok
    /\ ~DuplicateLabel(Renamed(c, match_columns(g, c).mapping),
                       Range(g.names))

\* the canonicalized datasets of lines 160-178: columns in sorted gold name
\* order, candidate columns renamed, rows sorted, numeric pairs as float
Canonical(g, c) ==
    LET labels == Renamed(c, match_columns(g, c).mapping)
        gidx == SortedColumns(g)
        cidx == [k \in DOMAIN gidx |->
                    CHOOSE i \in DOMAIN labels : labels[i] = g.names[gidx[k]]]
    IN [cols |-> [k \in DOMAIN gidx |-> g.names[gidx[k]]],
        numeric |-> [k \in DOMAIN gidx |->
                        is_numeric_series(Normalised(g.dtypes[gidx[k]],
                                                     c.dtypes[cidx[k]]))],
        grows |-> SortRows(RowsOf(g, gidx)),
        crows |-> SortRows(RowsOf(c, cidx))]

\* positions of the canonical columns that are neither exactly equal nor,
\* being numeric, equal within the tolerance
Unequal(cn) ==
    {k \in DOMAIN cn.cols :
        /\ ColumnOf(cn.grows, k) # ColumnOf(cn.crows, k)
        /\ ~(cn.numeric[k]
             /\ SeriesClose(ColumnOf(cn.grows, k), ColumnOf(cn.crows, k)))}

Lowest(S) == CHOOSE x \in S : \A y \in S : x <= y

\* C27: when the canonicalized datasets are not structurally equal, compare
\* reports a mismatch only if some column is neither exactly nor tolerantly
\* equal; the diagnostic names the lexicographically first such column and
\* the first row index at which it differs; if every column is exactly or
\* tolerantly equal the verdict is a match.
C27_FirstUnequalColumn ==
    (cmpPc = "compared" /\ ReachesFinalComparison(gold, comp)) =>
        LET cn == Canonical(gold, comp)
            bad == Unequal(cn)
        IN IF bad = {} THEN verdict.res = "match"
           ELSE LET k == Lowest(bad)
                IN /\ verdict.res = "mismatch"
                   /\ verdict.msg = "differs"
                   /\ verdict.named = {cn.cols[k]}
                   /\ \A k2 \in bad : NameRank(cn.cols[k]) <= NameRank(cn.cols[k2])
                   /\ verdict.n1 =
                          Lowest({r \in DOMAIN cn.grows :
                                     cn.grows[r][k] # cn.crows[r][k]}) - 1

\* column a differs but within the tolerance, column b is reported, at its
\* first row
C27_Witness ==
    /\ cmpPc = "compared"
    /\ ReachesFinalComparison(gold, comp)
    /\ LET cn == Canonical(gold, comp)
       IN /\ ColumnOf(cn.grows, 1) # ColumnOf(cn.crows, 1)
          /\ Unequal(cn) = {2}
          /\ verdict.named = {"b"}
          /\ verdict.n1 = 0

\* c is g with its rows permuted and every value moved by at most
\* 1e-5 + 1e-5*|c|
PerturbedPermutation(g, c) ==
    /\ c.names = g.names
    /\ c.dtypes = g.dtypes
    /\ c.nrows = g.nrows
    /\ \E rp \in Permutations(1..g.nrows) :
          \A i \in DOMAIN g.names : \A r \in 1..g.nrows :
              AtolPlusRtol(g.vals[i][r], c.vals[i][rp[r]])

\* C30: if the candidate equals gold up to a permutation of rows and a
\* perturbation of each numeric value within |g - c| <= 1e-5 + 1e-5*|c|,
\* compare reports a match, also with two or more columns where the
\* perturbation changes the order of the rows under the canonical sort.
C30_PerturbedRowsMatch ==
    (cmpPc = "compared" /\ PerturbedPermutation(gold, comp)) =>
        verdict.res = "match"

\* C28: every dispatched command starts in RUNNING and reaches exactly one
\* of COMPLETE_BY_EXIT, COMPLETE_BY_PREDICATE or TIMED_OUT no later than
\* max_timeout, given that time advances; once a terminal state is reached
\* it never changes, the predicate is no longer polled, and the blocking
\* call has returned to the caller.
C28_TerminatesOnce ==
    /\ [][state = "IDLE" /\ state' # "IDLE" =>
             (state' = "RUNNING" /\ elapsed' = 0 /\ caller' = "blocked")]_vars
    /\ [](state \in {"IDLE", "RUNNING"} \cup Terminal)
    /\ (state = "RUNNING" ~> state \in Terminal)
    /\ [](state \in {"RUNNING"} \cup Terminal => elapsed <= command.max)
    /\ [](state \in Terminal =>
             (caller # "blocked" /\ caller = PerformTaskOutcome(state)))
    /\ [][(state \in Terminal) =>
             (/\ state' = state
              /\ polls' = polls
              /\ elapsed' = elapsed
              /\ caller' = caller)]_vars

\* C28 witness: a command with a deadline of several ticks reached its
\* terminal state at the deadline after the predicate had been polled.
C28_Witness == /\ state \in Terminal
               /\ command.max >= 2
               /\ elapsed = command.max
               /\ polls >= 1
               /\ caller # "blocked"

(***************************************************************************)
(* SetupOrchestrator.setup_task: the setup steps of one task               *)
(***************************************************************************)
ProjectTypes == {"dbt", "dbt-fusion", "other"}
DbTypes == {"duckdb", "snowflake", "other"}

OrchInit ==
    /\ variant \in [project_type : ProjectTypes, db_type : DbTypes]
    /\ orch \in [skills : BOOLEAN, file_diff_handler : BOOLEAN]
    /\ fails \in SUBSET {"dbt", "db"}
    /\ orchPc = "dbt"
    /\ ran = <<>>
    /\ orchResult = "none"
    /\ LoadIdle /\ OrderIdle /\ DriverIdle /\ PredIdle /\ CmpIdle
    /\ ScriptIdle /\ PtIdle /\ PluginIdle /\ ScanIdle /\ PoolIdle

\* lines 35-41: setup_dbt_project for dbt and dbt-fusion projects; a reported
\* failure returns False
SetupDbtProject ==
    /\ orchPc = "dbt"
    /\ ran' = IF variant.project_type \in {"dbt", "dbt-fusion"} THEN Append(ran, "dbt_project") ELSE ran
    /\ LET failed == variant.project_type \in {"dbt", "dbt-fusion"} /\ "dbt" \in fails
       IN /\ orchPc' = IF failed THEN "done" ELSE "agent"
          /\ orchResult' = IF failed THEN "False" ELSE orchResult
    /\ UNCHANGED <<variant, orch, fails, loadVars, orderVars, driverVars, predVars,
                   cmpVars, scriptVars, ptVars, pluginVars, scanVars, poolVars>>

\* line 46: setup_agent_config
SetupAgentConfig ==
    /\ orchPc = "agent"
    /\ ran' = IF TRUE THEN Append(ran, "agent_config") ELSE ran
    /\ orchPc' = "skills"
    /\ UNCHANGED <<variant, orch, fails, orchResult, loadVars, orderVars, driverVars, predVars,
                   cmpVars, scriptVars, ptVars, pluginVars, scanVars, poolVars>>

\* lines 49-52: skills are installed when the plugin set has skills
InstallSkills ==
    /\ orchPc = "skills"
    /\ ran' = IF orch.skills THEN Append(ran, "skills") ELSE ran
    /\ orchPc' = "db"
    /\ UNCHANGED <<variant, orch, fails, orchResult, loadVars, orderVars, driverVars, predVars,
                   cmpVars, scriptVars, ptVars, pluginVars, scanVars, poolVars>>

\* variant of SetupDatabase that goes on after a reported failure
SetupDatabase_ContinuesOnFailure ==
    /\ orchPc = "db"
    /\ ran' = IF variant.db_type \in {"duckdb", "snowflake"} THEN Append(ran, "database") ELSE ran
    /\ LET failed == FALSE
       IN /\ orchPc' = IF failed THEN "done" ELSE "snapshot"
          /\ orchResult' = IF failed THEN "False" ELSE orchResult
    /\ UNCHANGED <<variant, orch, fails, loadVars, orderVars, driverVars, predVars,
                   cmpVars, scriptVars, ptVars, pluginVars, scanVars, poolVars>>

\* lines 56-69: setup_duckdb or setup_snowflake by db_type; a reported
\* failure returns False
SetupDatabase ==
    /\ orchPc = "db"
    /\ ran' = IF variant.db_type \in {"duckdb", "snowflake"} THEN Append(ran, "database") ELSE ran
    /\ LET failed == variant.db_type \in {"duckdb", "snowflake"} /\ "db" \in fails
       IN /\ orchPc' = IF failed THEN "done" ELSE "snapshot"
          /\ orchResult' = IF failed THEN "False" ELSE orchResult
    /\ UNCHANGED <<variant, orch, fails, loadVars, orderVars, driverVars, predVars,
                   cmpVars, scriptVars, ptVars, pluginVars, scanVars, poolVars>>

\* lines 73-75: snapshot before migrations, when a file_diff_handler is set
SnapshotBeforeMigrations ==
    /\ orchPc = "snapshot"
    /\ ran' = IF orch.file_diff_handler THEN Append(ran, "snapshot") ELSE ran
    /\ orchPc' = "migration"
    /\ UNCHANGED <<variant, orch, fails, orchResult, loadVars, orderVars, driverVars, predVars,
                   cmpVars, scriptVars, ptVars, pluginVars, scanVars, poolVars>>

\* lines 79-81: setup_migration
SetupMigration ==
    /\ orchPc = "migration"
    /\ ran' = IF TRUE THEN Append(ran, "migration") ELSE ran
    /\ orchPc' = "base"
    /\ UNCHANGED <<variant, orch, fails, orchResult, loadVars, orderVars, driverVars, predVars,
                   cmpVars, scriptVars, ptVars, pluginVars, scanVars, poolVars>>

\* lines 85-87: setup_base_files runs the setup script
SetupBaseFiles ==
    /\ orchPc = "base"
    /\ ran' = IF TRUE THEN Append(ran, "setup_script") ELSE ran
    /\ orchPc' = "final"
    /\ UNCHANGED <<variant, orch, fails, orchResult, loadVars, orderVars, driverVars, predVars,
                   cmpVars, scriptVars, ptVars, pluginVars, scanVars, poolVars>>

\* lines 91-93: final snapshot, when a file_diff_handler is set
FinalSnapshot ==
    /\ orchPc = "final"
    /\ ran' = IF orch.file_diff_handler THEN Append(ran, "snapshot") ELSE ran
    /\ orchPc' = "return"
    /\ UNCHANGED <<variant, orch, fails, orchResult, loadVars, orderVars, driverVars, predVars,
                   cmpVars, scriptVars, ptVars, pluginVars, scanVars, poolVars>>

\* line 96: return True
ReturnTrue ==
    /\ orchPc = "return"
    /\ orchPc' = "done"
    /\ orchResult' = "True"
    /\ UNCHANGED <<variant, orch, fails, ran, loadVars, orderVars, driverVars, predVars,
                   cmpVars, scriptVars, ptVars, pluginVars, scanVars, poolVars>>

OrchNext ==
    \/ SetupDbtProject
    \/ SetupAgentConfig
    \/ InstallSkills
    \/ SetupDatabase
    \/ SnapshotBeforeMigrations
    \/ SetupMigration
    \/ SetupBaseFiles
    \/ FinalSnapshot
    \/ ReturnTrue

OrchSpec == OrchInit /\ [][OrchNext]_vars

\* the eight steps in the order of the source text
SetupSteps ==
    <<"dbt_project", "agent_config", "skills", "database", "snapshot",
      "migration", "setup_script", "snapshot">>

\* step i is run for this variant and this orchestrator
Applies(i) ==
    CASE i = 1 -> variant.project_type \in {"dbt", "dbt-fusion"}
      [] i = 3 -> orch.skills
      [] i = 4 -> variant.db_type \in {"duckdb", "snowflake"}
      [] i \in {5, 8} -> orch.file_diff_handler
      [] OTHER -> TRUE

\* step i is run and reports failure
ReportsFailure(i) ==
    /\ Applies(i)
    /\ \/ i = 1 /\ "dbt" \in fails
       \/ i = 4 /\ "db" \in fails

\* the last step that is reached: the first one that reports failure
LastReached ==
    IF \E i \in DOMAIN SetupSteps : ReportsFailure(i)
    THEN Lowest({i \in DOMAIN SetupSteps : ReportsFailure(i)})
    ELSE Len(SetupSteps)

RECURSIVE StepsThrough(_, _)
StepsThrough(i, last) ==
    IF i > last THEN <<>>
    ELSE (IF Applies(i) THEN <<SetupSteps[i]>> ELSE <<>>)
             \o StepsThrough(i + 1, last)

IsPrefix(s, t) == Len(s) <= Len(t) /\ s = SubSeq(t, 1, Len(s))

\* s keeps the order of t: s is t with some elements left out
RECURSIVE InOrderOf(_, _)
InOrderOf(s, t) ==
    IF s = <<>> THEN TRUE
    ELSE IF t = <<>> THEN FALSE
    ELSE IF s[1] = t[1] /\ InOrderOf(Tail(s), Tail(t)) THEN TRUE
    ELSE InOrderOf(s, Tail(t))

\* C29: setup_task runs its steps in the fixed order dbt project setup, agent
\* config, skills install, database setup, snapshot, migrations, setup
\* script, snapshot; if dbt project setup or database setup reports failure
\* it returns False and none of the later steps is run; it returns True only
\* after the setup script and the final snapshot.
C29_FixedOrderFinalSnapshot ==
    /\ InOrderOf(ran, SetupSteps)
    /\ orchResult = "False" =>
          /\ ran # <<>>
          /\ ran[Len(ran)] \in {"dbt_project", "database"}
          /\ \A k \in DOMAIN ran : ran[k] \notin {"migration", "setup_script"}
    /\ orchResult = "True" =>
          /\ Len(ran) >= 2
          /\ ran[Len(ran) - 1] = "setup_script"
          /\ ran[Len(ran)] = "snapshot"

\* C29 amended: setup_task runs, in the fixed order, those steps that apply:
\* dbt project setup only for project types dbt and dbt-fusion, skills
\* install only when the plugin set has skills, database setup only for
\* duckdb and snowflake, each snapshot only when a file_diff_handler is
\* configured; agent config, migrations and the setup script always. If dbt
\* project setup or database setup is run and reports failure it returns
\* False and no later step is run. It returns True only after the setup
\* script and, when a file_diff_handler is configured, the final snapshot.
C29_ApplicableStepsInOrder ==
    /\ IsPrefix(ran, StepsThrough(1, LastReached))
    /\ orchResult = "False" =>
          /\ \E i \in DOMAIN SetupSteps : ReportsFailure(i)
          /\ ran = StepsThrough(1, LastReached)
          /\ ran[Len(ran)] \in {"dbt_project", "database"}
    /\ orchResult = "True" =>
          /\ \A i \in DOMAIN SetupSteps : ~ReportsFailure(i)
          /\ ran = StepsThrough(1, Len(SetupSteps))
          /\ IF orch.file_diff_handler
             THEN /\ ran[Len(ran) - 1] = "setup_script"
                  /\ ran[Len(ran)] = "snapshot"
             ELSE ran[Len(ran)] = "setup_script"

\* C29 witness: without a file_diff_handler, and with neither a dbt project
\* nor a known database type, setup_task returned True right after the setup
\* script.
C29_Witness ==
    /\ orchResult = "True"
    /\ ~orch.file_diff_handler
    /\ ran = <<"agent_config", "migration", "setup_script">>

====
